---- MODULE Spec2Model ----
(***************************************************************************)
(* thonny/ast_utils.py: text ranges of syntax-tree nodes.                  *)
(*                                                                         *)
(* mark_text_ranges(node, source) tokenizes the source, corrects the start *)
(* positions the parser reported (fix_ast_problems) and then assigns an    *)
(* end position to every positioned node (_mark_text_ranges_rec).  The     *)
(* query functions (find_closest_containing_node, find_expression,         *)
(* has_parent_with_class, extract_text_range) read the ranged tree.        *)
(*                                                                         *)
(* The parser and the tokenizer are not part of the module: a sample is    *)
(* the source text, the token list tokenize.tokenize yields for it and the *)
(* tree ast.parse reports for it, in the grammar of the Python versions    *)
(* the module is written for (3.4 / 3.5: Num, Str, Index, unpositioned     *)
(* keyword; starts in UTF-8 bytes; chained binary operations reported at   *)
(* their operator, bpo-18374; nodes that begin with a multi-line string    *)
(* reported at the string's last line with column -1, bpo-16806).          *)
(*                                                                         *)
(* Spec follows mark_text_ranges and one query of the ranged tree,         *)
(* SpecTokenize a call of tokenize_with_char_offsets on a sample's source, *)
(* SpecExtract a call of extract_text_range on a short source.             *)
(***************************************************************************)
EXTENDS Integers, Sequences, FiniteSets, TLC

\* BEGIN SAMPLES
Samples ==
  <<
    \* sample 1: binary operation in an assignment
    \*     x = 1 + 2\n
    [ id |-> 1,
      source |-> <<<<"x", " ", "=", " ", "1", " ", "+", " ", "2", "\n">>>>,
      tokens |-> <<
        [type |-> "ENCODING", string |-> "utf-8", start |-> <<0, 0>>, end |-> <<0, 0>>],
        [type |-> "NAME", string |-> "x", start |-> <<1, 0>>, end |-> <<1, 1>>],
        [type |-> "OP", string |-> "=", start |-> <<1, 2>>, end |-> <<1, 3>>],
        [type |-> "NUMBER", string |-> "1", start |-> <<1, 4>>, end |-> <<1, 5>>],
        [type |-> "OP", string |-> "+", start |-> <<1, 6>>, end |-> <<1, 7>>],
        [type |-> "NUMBER", string |-> "2", start |-> <<1, 8>>, end |-> <<1, 9>>],
        [type |-> "NEWLINE", string |-> "\n", start |-> <<1, 9>>, end |-> <<1, 10>>],
        [type |-> "ENDMARKER", string |-> "", start |-> <<2, 0>>, end |-> <<2, 0>>] >>,
      nodes |-> <<
        [kind |-> "Module", base |-> "other", positioned |-> FALSE, lineno |-> 0, col_offset |-> 0,
         fields |-> <<<<"body", <<2>>>>>>],
        [kind |-> "Assign", base |-> "stmt", positioned |-> TRUE, lineno |-> 1, col_offset |-> 0,
         fields |-> <<<<"targets", <<3>>>>, <<"value", <<5>>>>>>],
        [kind |-> "Name", base |-> "expr", positioned |-> TRUE, lineno |-> 1, col_offset |-> 0,
         fields |-> <<<<"ctx", <<4>>>>>>],
        [kind |-> "Store", base |-> "other", positioned |-> FALSE, lineno |-> 0, col_offset |-> 0,
         fields |-> <<>>],
        [kind |-> "BinOp", base |-> "expr", positioned |-> TRUE, lineno |-> 1, col_offset |-> 4,
         fields |-> <<<<"left", <<6>>>>, <<"op", <<7>>>>, <<"right", <<8>>>>>>],
        [kind |-> "Num", base |-> "expr", positioned |-> TRUE, lineno |-> 1, col_offset |-> 4,
         fields |-> <<>>],
        [kind |-> "Add", base |-> "other", positioned |-> FALSE, lineno |-> 0, col_offset |-> 0,
         fields |-> <<>>],
        [kind |-> "Num", base |-> "expr", positioned |-> TRUE, lineno |-> 1, col_offset |-> 8,
         fields |-> <<>>] >> ],
    \* sample 2: call without arguments
    \*     f()\n
    [ id |-> 2,
      source |-> <<<<"f", "(", ")", "\n">>>>,
      tokens |-> <<
        [type |-> "ENCODING", string |-> "utf-8", start |-> <<0, 0>>, end |-> <<0, 0>>],
        [type |-> "NAME", string |-> "f", start |-> <<1, 0>>, end |-> <<1, 1>>],
        [type |-> "OP", string |-> "(", start |-> <<1, 1>>, end |-> <<1, 2>>],
        [type |-> "OP", string |-> ")", start |-> <<1, 2>>, end |-> <<1, 3>>],
        [type |-> "NEWLINE", string |-> "\n", start |-> <<1, 3>>, end |-> <<1, 4>>],
        [type |-> "ENDMARKER", string |-> "", start |-> <<2, 0>>, end |-> <<2, 0>>] >>,
      nodes |-> <<
        [kind |-> "Module", base |-> "other", positioned |-> FALSE, lineno |-> 0, col_offset |-> 0,
         fields |-> <<<<"body", <<2>>>>>>],
        [kind |-> "Expr", base |-> "stmt", positioned |-> TRUE, lineno |-> 1, col_offset |-> 0,
         fields |-> <<<<"value", <<3>>>>>>],
        [kind |-> "Call", base |-> "expr", positioned |-> TRUE, lineno |-> 1, col_offset |-> 0,
         fields |-> <<<<"func", <<4>>>>, <<"args", <<>>>>, <<"keywords", <<>>>>, <<"starargs", <<>>>>, <<"kwargs", <<>>>>>>],
        [kind |-> "Name", base |-> "expr", positioned |-> TRUE, lineno |-> 1, col_offset |-> 0,
         fields |-> <<<<"ctx", <<5>>>>>>],
        [kind |-> "Load", base |-> "other", positioned |-> FALSE, lineno |-> 0, col_offset |-> 0,
         fields |-> <<>>] >> ],
    \* sample 3: conditional expression
    \*     1 if bb else 2\n
    [ id |-> 3,
      source |-> <<<<"1", " ", "i", "f", " ", "b", "b", " ", "e", "l", "s", "e", " ", "2", "\n">>>>,
      tokens |-> <<
        [type |-> "ENCODING", string |-> "utf-8", start |-> <<0, 0>>, end |-> <<0, 0>>],
        [type |-> "NUMBER", string |-> "1", start |-> <<1, 0>>, end |-> <<1, 1>>],
        [type |-> "NAME", string |-> "if", start |-> <<1, 2>>, end |-> <<1, 4>>],
        [type |-> "NAME", string |-> "bb", start |-> <<1, 5>>, end |-> <<1, 7>>],
        [type |-> "NAME", string |-> "else", start |-> <<1, 8>>, end |-> <<1, 12>>],
        [type |-> "NUMBER", string |-> "2", start |-> <<1, 13>>, end |-> <<1, 14>>],
        [type |-> "NEWLINE", string |-> "\n", start |-> <<1, 14>>, end |-> <<1, 15>>],
        [type |-> "ENDMARKER", string |-> "", start |-> <<2, 0>>, end |-> <<2, 0>>] >>,
      nodes |-> <<
        [kind |-> "Module", base |-> "other", positioned |-> FALSE, lineno |-> 0, col_offset |-> 0,
         fields |-> <<<<"body", <<2>>>>>>],
        [kind |-> "Expr", base |-> "stmt", positioned |-> TRUE, lineno |-> 1, col_offset |-> 0,
         fields |-> <<<<"value", <<3>>>>>>],
        [kind |-> "IfExp", base |-> "expr", positioned |-> TRUE, lineno |-> 1, col_offset |-> 0,
         fields |-> <<<<"test", <<4>>>>, <<"body", <<6>>>>, <<"orelse", <<7>>>>>>],
        [kind |-> "Name", base |-> "expr", positioned |-> TRUE, lineno |-> 1, col_offset |-> 5,
         fields |-> <<<<"ctx", <<5>>>>>>],
        [kind |-> "Load", base |-> "other", positioned |-> FALSE, lineno |-> 0, col_offset |-> 0,
         fields |-> <<>>],
        [kind |-> "Num", base |-> "expr", positioned |-> TRUE, lineno |-> 1, col_offset |-> 0,
         fields |-> <<>>],
        [kind |-> "Num", base |-> "expr", positioned |-> TRUE, lineno |-> 1, col_offset |-> 13,
         fields |-> <<>>] >> ],
    \* sample 4: lambda with two parameters
    \*     lambda x, y: 0\n
    [ id |-> 4,
      source |-> <<<<"l", "a", "m", "b", "d", "a", " ", "x", ",", " ", "y", ":", " ", "0", "\n">>>>,
      tokens |-> <<
        [type |-> "ENCODING", string |-> "utf-8", start |-> <<0, 0>>, end |-> <<0, 0>>],
        [type |-> "NAME", string |-> "lambda", start |-> <<1, 0>>, end |-> <<1, 6>>],
        [type |-> "NAME", string |-> "x", start |-> <<1, 7>>, end |-> <<1, 8>>],
        [type |-> "OP", string |-> ",", start |-> <<1, 8>>, end |-> <<1, 9>>],
        [type |-> "NAME", string |-> "y", start |-> <<1, 10>>, end |-> <<1, 11>>],
        [type |-> "OP", string |-> ":", start |-> <<1, 11>>, end |-> <<1, 12>>],
        [type |-> "NUMBER", string |-> "0", start |-> <<1, 13>>, end |-> <<1, 14>>],
        [type |-> "NEWLINE", string |-> "\n", start |-> <<1, 14>>, end |-> <<1, 15>>],
        [type |-> "ENDMARKER", string |-> "", start |-> <<2, 0>>, end |-> <<2, 0>>] >>,
      nodes |-> <<
        [kind |-> "Module", base |-> "other", positioned |-> FALSE, lineno |-> 0, col_offset |-> 0,
         fields |-> <<<<"body", <<2>>>>>>],
        [kind |-> "Expr", base |-> "stmt", positioned |-> TRUE, lineno |-> 1, col_offset |-> 0,
         fields |-> <<<<"value", <<3>>>>>>],
        [kind |-> "Lambda", base |-> "expr", positioned |-> TRUE, lineno |-> 1, col_offset |-> 0,
         fields |-> <<<<"args", <<4>>>>, <<"body", <<7>>>>>>],
        [kind |-> "arguments", base |-> "other", positioned |-> FALSE, lineno |-> 0, col_offset |-> 0,
         fields |-> <<<<"args", <<5, 6>>>>, <<"vararg", <<>>>>, <<"kwonlyargs", <<>>>>, <<"kw_defaults", <<>>>>, <<"kwarg", <<>>>>, <<"defaults", <<>>>>>>],
        [kind |-> "arg", base |-> "other", positioned |-> TRUE, lineno |-> 1, col_offset |-> 7,
         fields |-> <<<<"annotation", <<>>>>>>],
        [kind |-> "arg", base |-> "other", positioned |-> TRUE, lineno |-> 1, col_offset |-> 10,
         fields |-> <<<<"annotation", <<>>>>>>],
        [kind |-> "Num", base |-> "expr", positioned |-> TRUE, lineno |-> 1, col_offset |-> 13,
         fields |-> <<>>] >> ],
    \* sample 5: call with a keyword argument
    \*     f(a, k=b)\n
    [ id |-> 5,
      source |-> <<<<"f", "(", "a", ",", " ", "k", "=", "b", ")", "\n">>>>,
      tokens |-> <<
        [type |-> "ENCODING", string |-> "utf-8", start |-> <<0, 0>>, end |-> <<0, 0>>],
        [type |-> "NAME", string |-> "f", start |-> <<1, 0>>, end |-> <<1, 1>>],
        [type |-> "OP", string |-> "(", start |-> <<1, 1>>, end |-> <<1, 2>>],
        [type |-> "NAME", string |-> "a", start |-> <<1, 2>>, end |-> <<1, 3>>],
        [type |-> "OP", string |-> ",", start |-> <<1, 3>>, end |-> <<1, 4>>],
        [type |-> "NAME", string |-> "k", start |-> <<1, 5>>, end |-> <<1, 6>>],
        [type |-> "OP", string |-> "=", start |-> <<1, 6>>, end |-> <<1, 7>>],
        [type |-> "NAME", string |-> "b", start |-> <<1, 7>>, end |-> <<1, 8>>],
        [type |-> "OP", string |-> ")", start |-> <<1, 8>>, end |-> <<1, 9>>],
        [type |-> "NEWLINE", string |-> "\n", start |-> <<1, 9>>, end |-> <<1, 10>>],
        [type |-> "ENDMARKER", string |-> "", start |-> <<2, 0>>, end |-> <<2, 0>>] >>,
      nodes |-> <<
        [kind |-> "Module", base |-> "other", positioned |-> FALSE, lineno |-> 0, col_offset |-> 0,
         fields |-> <<<<"body", <<2>>>>>>],
        [kind |-> "Expr", base |-> "stmt", positioned |-> TRUE, lineno |-> 1, col_offset |-> 0,
         fields |-> <<<<"value", <<3>>>>>>],
        [kind |-> "Call", base |-> "expr", positioned |-> TRUE, lineno |-> 1, col_offset |-> 0,
         fields |-> <<<<"func", <<4>>>>, <<"args", <<6>>>>, <<"keywords", <<7>>>>, <<"starargs", <<>>>>, <<"kwargs", <<>>>>>>],
        [kind |-> "Name", base |-> "expr", positioned |-> TRUE, lineno |-> 1, col_offset |-> 0,
         fields |-> <<<<"ctx", <<5>>>>>>],
        [kind |-> "Load", base |-> "other", positioned |-> FALSE, lineno |-> 0, col_offset |-> 0,
         fields |-> <<>>],
        [kind |-> "Name", base |-> "expr", positioned |-> TRUE, lineno |-> 1, col_offset |-> 2,
         fields |-> <<<<"ctx", <<5>>>>>>],
        [kind |-> "keyword", base |-> "other", positioned |-> FALSE, lineno |-> 0, col_offset |-> 0,
         fields |-> <<<<"value", <<8>>>>>>],
        [kind |-> "Name", base |-> "expr", positioned |-> TRUE, lineno |-> 1, col_offset |-> 7,
         fields |-> <<<<"ctx", <<5>>>>>>] >> ],
    \* sample 6: mapping literal
    \*     d = {a: 1, b: 2}\n
    [ id |-> 6,
      source |-> <<<<"d", " ", "=", " ", "{", "a", ":", " ", "1", ",", " ", "b", ":", " ", "2", "}", "\n">>>>,
      tokens |-> <<
        [type |-> "ENCODING", string |-> "utf-8", start |-> <<0, 0>>, end |-> <<0, 0>>],
        [type |-> "NAME", string |-> "d", start |-> <<1, 0>>, end |-> <<1, 1>>],
        [type |-> "OP", string |-> "=", start |-> <<1, 2>>, end |-> <<1, 3>>],
        [type |-> "OP", string |-> "{", start |-> <<1, 4>>, end |-> <<1, 5>>],
        [type |-> "NAME", string |-> "a", start |-> <<1, 5>>, end |-> <<1, 6>>],
        [type |-> "OP", string |-> ":", start |-> <<1, 6>>, end |-> <<1, 7>>],
        [type |-> "NUMBER", string |-> "1", start |-> <<1, 8>>, end |-> <<1, 9>>],
        [type |-> "OP", string |-> ",", start |-> <<1, 9>>, end |-> <<1, 10>>],
        [type |-> "NAME", string |-> "b", start |-> <<1, 11>>, end |-> <<1, 12>>],
        [type |-> "OP", string |-> ":", start |-> <<1, 12>>, end |-> <<1, 13>>],
        [type |-> "NUMBER", string |-> "2", start |-> <<1, 14>>, end |-> <<1, 15>>],
        [type |-> "OP", string |-> "}", start |-> <<1, 15>>, end |-> <<1, 16>>],
        [type |-> "NEWLINE", string |-> "\n", start |-> <<1, 16>>, end |-> <<1, 17>>],
        [type |-> "ENDMARKER", string |-> "", start |-> <<2, 0>>, end |-> <<2, 0>>] >>,
      nodes |-> <<
        [kind |-> "Module", base |-> "other", positioned |-> FALSE, lineno |-> 0, col_offset |-> 0,
         fields |-> <<<<"body", <<2>>>>>>],
        [kind |-> "Assign", base |-> "stmt", positioned |-> TRUE, lineno |-> 1, col_offset |-> 0,
         fields |-> <<<<"targets", <<3>>>>, <<"value", <<5>>>>>>],
        [kind |-> "Name", base |-> "expr", positioned |-> TRUE, lineno |-> 1, col_offset |-> 0,
         fields |-> <<<<"ctx", <<4>>>>>>],
        [kind |-> "Store", base |-> "other", positioned |-> FALSE, lineno |-> 0, col_offset |-> 0,
         fields |-> <<>>],
        [kind |-> "Dict", base |-> "expr", positioned |-> TRUE, lineno |-> 1, col_offset |-> 4,
         fields |-> <<<<"keys", <<6, 8>>>>, <<"values", <<9, 10>>>>>>],
        [kind |-> "Name", base |-> "expr", positioned |-> TRUE, lineno |-> 1, col_offset |-> 5,
         fields |-> <<<<"ctx", <<7>>>>>>],
        [kind |-> "Load", base |-> "other", positioned |-> FALSE, lineno |-> 0, col_offset |-> 0,
         fields |-> <<>>],
        [kind |-> "Name", base |-> "expr", positioned |-> TRUE, lineno |-> 1, col_offset |-> 11,
         fields |-> <<<<"ctx", <<7>>>>>>],
        [kind |-> "Num", base |-> "expr", positioned |-> TRUE, lineno |-> 1, col_offset |-> 8,
         fields |-> <<>>],
        [kind |-> "Num", base |-> "expr", positioned |-> TRUE, lineno |-> 1, col_offset |-> 14,
         fields |-> <<>>] >> ],
    \* sample 7: parameter list with defaults
    \*     def f(a, b=-1, c=2):\n
    \*         pass\n
    [ id |-> 7,
      source |-> <<<<"d", "e", "f", " ", "f", "(", "a", ",", " ", "b", "=", "-", "1", ",", " ", "c", "=", "2", ")", ":", "\n">>, <<" ", " ", " ", " ", "p", "a", "s", "s", "\n">>>>,
      tokens |-> <<
        [type |-> "ENCODING", string |-> "utf-8", start |-> <<0, 0>>, end |-> <<0, 0>>],
        [type |-> "NAME", string |-> "def", start |-> <<1, 0>>, end |-> <<1, 3>>],
        [type |-> "NAME", string |-> "f", start |-> <<1, 4>>, end |-> <<1, 5>>],
        [type |-> "OP", string |-> "(", start |-> <<1, 5>>, end |-> <<1, 6>>],
        [type |-> "NAME", string |-> "a", start |-> <<1, 6>>, end |-> <<1, 7>>],
        [type |-> "OP", string |-> ",", start |-> <<1, 7>>, end |-> <<1, 8>>],
        [type |-> "NAME", string |-> "b", start |-> <<1, 9>>, end |-> <<1, 10>>],
        [type |-> "OP", string |-> "=", start |-> <<1, 10>>, end |-> <<1, 11>>],
        [type |-> "OP", string |-> "-", start |-> <<1, 11>>, end |-> <<1, 12>>],
        [type |-> "NUMBER", string |-> "1", start |-> <<1, 12>>, end |-> <<1, 13>>],
        [type |-> "OP", string |-> ",", start |-> <<1, 13>>, end |-> <<1, 14>>],
        [type |-> "NAME", string |-> "c", start |-> <<1, 15>>, end |-> <<1, 16>>],
        [type |-> "OP", string |-> "=", start |-> <<1, 16>>, end |-> <<1, 17>>],
        [type |-> "NUMBER", string |-> "2", start |-> <<1, 17>>, end |-> <<1, 18>>],
        [type |-> "OP", string |-> ")", start |-> <<1, 18>>, end |-> <<1, 19>>],
        [type |-> "OP", string |-> ":", start |-> <<1, 19>>, end |-> <<1, 20>>],
        [type |-> "NEWLINE", string |-> "\n", start |-> <<1, 20>>, end |-> <<1, 21>>],
        [type |-> "INDENT", string |-> "    ", start |-> <<2, 0>>, end |-> <<2, 4>>],
        [type |-> "NAME", string |-> "pass", start |-> <<2, 4>>, end |-> <<2, 8>>],
        [type |-> "NEWLINE", string |-> "\n", start |-> <<2, 8>>, end |-> <<2, 9>>],
        [type |-> "DEDENT", string |-> "", start |-> <<3, 0>>, end |-> <<3, 0>>],
        [type |-> "ENDMARKER", string |-> "", start |-> <<3, 0>>, end |-> <<3, 0>>] >>,
      nodes |-> <<
        [kind |-> "Module", base |-> "other", positioned |-> FALSE, lineno |-> 0, col_offset |-> 0,
         fields |-> <<<<"body", <<2>>>>>>],
        [kind |-> "FunctionDef", base |-> "stmt", positioned |-> TRUE, lineno |-> 1, col_offset |-> 0,
         fields |-> <<<<"args", <<3>>>>, <<"body", <<11>>>>, <<"decorator_list", <<>>>>, <<"returns", <<>>>>>>],
        [kind |-> "arguments", base |-> "other", positioned |-> FALSE, lineno |-> 0, col_offset |-> 0,
         fields |-> <<<<"args", <<4, 5, 6>>>>, <<"vararg", <<>>>>, <<"kwonlyargs", <<>>>>, <<"kw_defaults", <<>>>>, <<"kwarg", <<>>>>, <<"defaults", <<7, 10>>>>>>],
        [kind |-> "arg", base |-> "other", positioned |-> TRUE, lineno |-> 1, col_offset |-> 6,
         fields |-> <<<<"annotation", <<>>>>>>],
        [kind |-> "arg", base |-> "other", positioned |-> TRUE, lineno |-> 1, col_offset |-> 9,
         fields |-> <<<<"annotation", <<>>>>>>],
        [kind |-> "arg", base |-> "other", positioned |-> TRUE, lineno |-> 1, col_offset |-> 15,
         fields |-> <<<<"annotation", <<>>>>>>],
        [kind |-> "UnaryOp", base |-> "expr", positioned |-> TRUE, lineno |-> 1, col_offset |-> 11,
         fields |-> <<<<"op", <<8>>>>, <<"operand", <<9>>>>>>],
        [kind |-> "USub", base |-> "other", positioned |-> FALSE, lineno |-> 0, col_offset |-> 0,
         fields |-> <<>>],
        [kind |-> "Num", base |-> "expr", positioned |-> TRUE, lineno |-> 1, col_offset |-> 12,
         fields |-> <<>>],
        [kind |-> "Num", base |-> "expr", positioned |-> TRUE, lineno |-> 1, col_offset |-> 17,
         fields |-> <<>>],
        [kind |-> "Pass", base |-> "stmt", positioned |-> TRUE, lineno |-> 2, col_offset |-> 4,
         fields |-> <<>>] >> ],
    \* sample 8: literal spelled by two string tokens
    \*     s = 'a' 'b'\n
    \*     t = 'c'\n
    [ id |-> 8,
      source |-> <<<<"s", " ", "=", " ", "'", "a", "'", " ", "'", "b", "'", "\n">>, <<"t", " ", "=", " ", "'", "c", "'", "\n">>>>,
      tokens |-> <<
        [type |-> "ENCODING", string |-> "utf-8", start |-> <<0, 0>>, end |-> <<0, 0>>],
        [type |-> "NAME", string |-> "s", start |-> <<1, 0>>, end |-> <<1, 1>>],
        [type |-> "OP", string |-> "=", start |-> <<1, 2>>, end |-> <<1, 3>>],
        [type |-> "STRING", string |-> "'a'", start |-> <<1, 4>>, end |-> <<1, 7>>],
        [type |-> "STRING", string |-> "'b'", start |-> <<1, 8>>, end |-> <<1, 11>>],
        [type |-> "NEWLINE", string |-> "\n", start |-> <<1, 11>>, end |-> <<1, 12>>],
        [type |-> "NAME", string |-> "t", start |-> <<2, 0>>, end |-> <<2, 1>>],
        [type |-> "OP", string |-> "=", start |-> <<2, 2>>, end |-> <<2, 3>>],
        [type |-> "STRING", string |-> "'c'", start |-> <<2, 4>>, end |-> <<2, 7>>],
        [type |-> "NEWLINE", string |-> "\n", start |-> <<2, 7>>, end |-> <<2, 8>>],
        [type |-> "ENDMARKER", string |-> "", start |-> <<3, 0>>, end |-> <<3, 0>>] >>,
      nodes |-> <<
        [kind |-> "Module", base |-> "other", positioned |-> FALSE, lineno |-> 0, col_offset |-> 0,
         fields |-> <<<<"body", <<2, 6>>>>>>],
        [kind |-> "Assign", base |-> "stmt", positioned |-> TRUE, lineno |-> 1, col_offset |-> 0,
         fields |-> <<<<"targets", <<3>>>>, <<"value", <<5>>>>>>],
        [kind |-> "Name", base |-> "expr", positioned |-> TRUE, lineno |-> 1, col_offset |-> 0,
         fields |-> <<<<"ctx", <<4>>>>>>],
        [kind |-> "Store", base |-> "other", positioned |-> FALSE, lineno |-> 0, col_offset |-> 0,
         fields |-> <<>>],
        [kind |-> "Str", base |-> "expr", positioned |-> TRUE, lineno |-> 1, col_offset |-> 4,
         fields |-> <<>>],
        [kind |-> "Assign", base |-> "stmt", positioned |-> TRUE, lineno |-> 2, col_offset |-> 0,
         fields |-> <<<<"targets", <<7>>>>, <<"value", <<8>>>>>>],
        [kind |-> "Name", base |-> "expr", positioned |-> TRUE, lineno |-> 2, col_offset |-> 0,
         fields |-> <<<<"ctx", <<4>>>>>>],
        [kind |-> "Str", base |-> "expr", positioned |-> TRUE, lineno |-> 2, col_offset |-> 4,
         fields |-> <<>>] >> ],
    \* sample 9: triple-quoted string (bpo-16806 start)
    \*     x = f(\"\"\"a\n
    \*     b\"\"\", 'c')\n
    [ id |-> 9,
      source |-> <<<<"x", " ", "=", " ", "f", "(", "\"", "\"", "\"", "a", "\n">>, <<"b", "\"", "\"", "\"", ",", " ", "'", "c", "'", ")", "\n">>>>,
      tokens |-> <<
        [type |-> "ENCODING", string |-> "utf-8", start |-> <<0, 0>>, end |-> <<0, 0>>],
        [type |-> "NAME", string |-> "x", start |-> <<1, 0>>, end |-> <<1, 1>>],
        [type |-> "OP", string |-> "=", start |-> <<1, 2>>, end |-> <<1, 3>>],
        [type |-> "NAME", string |-> "f", start |-> <<1, 4>>, end |-> <<1, 5>>],
        [type |-> "OP", string |-> "(", start |-> <<1, 5>>, end |-> <<1, 6>>],
        [type |-> "STRING", string |-> "\"\"\"a\nb\"\"\"", start |-> <<1, 6>>, end |-> <<2, 4>>],
        [type |-> "OP", string |-> ",", start |-> <<2, 4>>, end |-> <<2, 5>>],
        [type |-> "STRING", string |-> "'c'", start |-> <<2, 6>>, end |-> <<2, 9>>],
        [type |-> "OP", string |-> ")", start |-> <<2, 9>>, end |-> <<2, 10>>],
        [type |-> "NEWLINE", string |-> "\n", start |-> <<2, 10>>, end |-> <<2, 11>>],
        [type |-> "ENDMARKER", string |-> "", start |-> <<3, 0>>, end |-> <<3, 0>>] >>,
      nodes |-> <<
        [kind |-> "Module", base |-> "other", positioned |-> FALSE, lineno |-> 0, col_offset |-> 0,
         fields |-> <<<<"body", <<2>>>>>>],
        [kind |-> "Assign", base |-> "stmt", positioned |-> TRUE, lineno |-> 1, col_offset |-> 0,
         fields |-> <<<<"targets", <<3>>>>, <<"value", <<5>>>>>>],
        [kind |-> "Name", base |-> "expr", positioned |-> TRUE, lineno |-> 1, col_offset |-> 0,
         fields |-> <<<<"ctx", <<4>>>>>>],
        [kind |-> "Store", base |-> "other", positioned |-> FALSE, lineno |-> 0, col_offset |-> 0,
         fields |-> <<>>],
        [kind |-> "Call", base |-> "expr", positioned |-> TRUE, lineno |-> 1, col_offset |-> 4,
         fields |-> <<<<"func", <<6>>>>, <<"args", <<8, 9>>>>, <<"keywords", <<>>>>, <<"starargs", <<>>>>, <<"kwargs", <<>>>>>>],
        [kind |-> "Name", base |-> "expr", positioned |-> TRUE, lineno |-> 1, col_offset |-> 4,
         fields |-> <<<<"ctx", <<7>>>>>>],
        [kind |-> "Load", base |-> "other", positioned |-> FALSE, lineno |-> 0, col_offset |-> 0,
         fields |-> <<>>],
        [kind |-> "Str", base |-> "expr", positioned |-> TRUE, lineno |-> 2, col_offset |-> -1,
         fields |-> <<>>],
        [kind |-> "Str", base |-> "expr", positioned |-> TRUE, lineno |-> 2, col_offset |-> 6,
         fields |-> <<>>] >> ],
    \* sample 10: multi-byte character before a name
    \*     s = '<e9>' + bb\n
    [ id |-> 10,
      source |-> <<<<"s", " ", "=", " ", "'", "<e9>", "'", " ", "+", " ", "b", "b", "\n">>>>,
      tokens |-> <<
        [type |-> "ENCODING", string |-> "utf-8", start |-> <<0, 0>>, end |-> <<0, 0>>],
        [type |-> "NAME", string |-> "s", start |-> <<1, 0>>, end |-> <<1, 1>>],
        [type |-> "OP", string |-> "=", start |-> <<1, 2>>, end |-> <<1, 3>>],
        [type |-> "STRING", string |-> "'<e9>'", start |-> <<1, 4>>, end |-> <<1, 7>>],
        [type |-> "OP", string |-> "+", start |-> <<1, 8>>, end |-> <<1, 9>>],
        [type |-> "NAME", string |-> "bb", start |-> <<1, 10>>, end |-> <<1, 12>>],
        [type |-> "NEWLINE", string |-> "\n", start |-> <<1, 12>>, end |-> <<1, 13>>],
        [type |-> "ENDMARKER", string |-> "", start |-> <<2, 0>>, end |-> <<2, 0>>] >>,
      nodes |-> <<
        [kind |-> "Module", base |-> "other", positioned |-> FALSE, lineno |-> 0, col_offset |-> 0,
         fields |-> <<<<"body", <<2>>>>>>],
        [kind |-> "Assign", base |-> "stmt", positioned |-> TRUE, lineno |-> 1, col_offset |-> 0,
         fields |-> <<<<"targets", <<3>>>>, <<"value", <<5>>>>>>],
        [kind |-> "Name", base |-> "expr", positioned |-> TRUE, lineno |-> 1, col_offset |-> 0,
         fields |-> <<<<"ctx", <<4>>>>>>],
        [kind |-> "Store", base |-> "other", positioned |-> FALSE, lineno |-> 0, col_offset |-> 0,
         fields |-> <<>>],
        [kind |-> "BinOp", base |-> "expr", positioned |-> TRUE, lineno |-> 1, col_offset |-> 4,
         fields |-> <<<<"left", <<6>>>>, <<"op", <<7>>>>, <<"right", <<8>>>>>>],
        [kind |-> "Str", base |-> "expr", positioned |-> TRUE, lineno |-> 1, col_offset |-> 4,
         fields |-> <<>>],
        [kind |-> "Add", base |-> "other", positioned |-> FALSE, lineno |-> 0, col_offset |-> 0,
         fields |-> <<>>],
        [kind |-> "Name", base |-> "expr", positioned |-> TRUE, lineno |-> 1, col_offset |-> 11,
         fields |-> <<<<"ctx", <<9>>>>>>],
        [kind |-> "Load", base |-> "other", positioned |-> FALSE, lineno |-> 0, col_offset |-> 0,
         fields |-> <<>>] >> ],
    \* sample 11: attribute, call, subscript
    \*     x.y(z)[0]\n
    [ id |-> 11,
      source |-> <<<<"x", ".", "y", "(", "z", ")", "[", "0", "]", "\n">>>>,
      tokens |-> <<
        [type |-> "ENCODING", string |-> "utf-8", start |-> <<0, 0>>, end |-> <<0, 0>>],
        [type |-> "NAME", string |-> "x", start |-> <<1, 0>>, end |-> <<1, 1>>],
        [type |-> "OP", string |-> ".", start |-> <<1, 1>>, end |-> <<1, 2>>],
        [type |-> "NAME", string |-> "y", start |-> <<1, 2>>, end |-> <<1, 3>>],
        [type |-> "OP", string |-> "(", start |-> <<1, 3>>, end |-> <<1, 4>>],
        [type |-> "NAME", string |-> "z", start |-> <<1, 4>>, end |-> <<1, 5>>],
        [type |-> "OP", string |-> ")", start |-> <<1, 5>>, end |-> <<1, 6>>],
        [type |-> "OP", string |-> "[", start |-> <<1, 6>>, end |-> <<1, 7>>],
        [type |-> "NUMBER", string |-> "0", start |-> <<1, 7>>, end |-> <<1, 8>>],
        [type |-> "OP", string |-> "]", start |-> <<1, 8>>, end |-> <<1, 9>>],
        [type |-> "NEWLINE", string |-> "\n", start |-> <<1, 9>>, end |-> <<1, 10>>],
        [type |-> "ENDMARKER", string |-> "", start |-> <<2, 0>>, end |-> <<2, 0>>] >>,
      nodes |-> <<
        [kind |-> "Module", base |-> "other", positioned |-> FALSE, lineno |-> 0, col_offset |-> 0,
         fields |-> <<<<"body", <<2>>>>>>],
        [kind |-> "Expr", base |-> "stmt", positioned |-> TRUE, lineno |-> 1, col_offset |-> 0,
         fields |-> <<<<"value", <<3>>>>>>],
        [kind |-> "Subscript", base |-> "expr", positioned |-> TRUE, lineno |-> 1, col_offset |-> 0,
         fields |-> <<<<"value", <<4>>>>, <<"slice", <<9>>>>, <<"ctx", <<7>>>>>>],
        [kind |-> "Call", base |-> "expr", positioned |-> TRUE, lineno |-> 1, col_offset |-> 0,
         fields |-> <<<<"func", <<5>>>>, <<"args", <<8>>>>, <<"keywords", <<>>>>, <<"starargs", <<>>>>, <<"kwargs", <<>>>>>>],
        [kind |-> "Attribute", base |-> "expr", positioned |-> TRUE, lineno |-> 1, col_offset |-> 0,
         fields |-> <<<<"value", <<6>>>>, <<"ctx", <<7>>>>>>],
        [kind |-> "Name", base |-> "expr", positioned |-> TRUE, lineno |-> 1, col_offset |-> 0,
         fields |-> <<<<"ctx", <<7>>>>>>],
        [kind |-> "Load", base |-> "other", positioned |-> FALSE, lineno |-> 0, col_offset |-> 0,
         fields |-> <<>>],
        [kind |-> "Name", base |-> "expr", positioned |-> TRUE, lineno |-> 1, col_offset |-> 4,
         fields |-> <<<<"ctx", <<7>>>>>>],
        [kind |-> "Index", base |-> "other", positioned |-> FALSE, lineno |-> 0, col_offset |-> 0,
         fields |-> <<<<"value", <<10>>>>>>],
        [kind |-> "Num", base |-> "expr", positioned |-> TRUE, lineno |-> 1, col_offset |-> 7,
         fields |-> <<>>] >> ],
    \* sample 12: attribute, call, subscript as Python 3.4.0 reports them (bpo-21295)
    \*     x.y(z)[0]\n
    [ id |-> 12,
      source |-> <<<<"x", ".", "y", "(", "z", ")", "[", "0", "]", "\n">>>>,
      tokens |-> <<
        [type |-> "ENCODING", string |-> "utf-8", start |-> <<0, 0>>, end |-> <<0, 0>>],
        [type |-> "NAME", string |-> "x", start |-> <<1, 0>>, end |-> <<1, 1>>],
        [type |-> "OP", string |-> ".", start |-> <<1, 1>>, end |-> <<1, 2>>],
        [type |-> "NAME", string |-> "y", start |-> <<1, 2>>, end |-> <<1, 3>>],
        [type |-> "OP", string |-> "(", start |-> <<1, 3>>, end |-> <<1, 4>>],
        [type |-> "NAME", string |-> "z", start |-> <<1, 4>>, end |-> <<1, 5>>],
        [type |-> "OP", string |-> ")", start |-> <<1, 5>>, end |-> <<1, 6>>],
        [type |-> "OP", string |-> "[", start |-> <<1, 6>>, end |-> <<1, 7>>],
        [type |-> "NUMBER", string |-> "0", start |-> <<1, 7>>, end |-> <<1, 8>>],
        [type |-> "OP", string |-> "]", start |-> <<1, 8>>, end |-> <<1, 9>>],
        [type |-> "NEWLINE", string |-> "\n", start |-> <<1, 9>>, end |-> <<1, 10>>],
        [type |-> "ENDMARKER", string |-> "", start |-> <<2, 0>>, end |-> <<2, 0>>] >>,
      nodes |-> <<
        [kind |-> "Module", base |-> "other", positioned |-> FALSE, lineno |-> 0, col_offset |-> 0,
         fields |-> <<<<"body", <<2>>>>>>],
        [kind |-> "Expr", base |-> "stmt", positioned |-> TRUE, lineno |-> 1, col_offset |-> 0,
         fields |-> <<<<"value", <<3>>>>>>],
        [kind |-> "Subscript", base |-> "expr", positioned |-> TRUE, lineno |-> 1, col_offset |-> 6,
         fields |-> <<<<"value", <<4>>>>, <<"slice", <<9>>>>, <<"ctx", <<7>>>>>>],
        [kind |-> "Call", base |-> "expr", positioned |-> TRUE, lineno |-> 1, col_offset |-> 3,
         fields |-> <<<<"func", <<5>>>>, <<"args", <<8>>>>, <<"keywords", <<>>>>, <<"starargs", <<>>>>, <<"kwargs", <<>>>>>>],
        [kind |-> "Attribute", base |-> "expr", positioned |-> TRUE, lineno |-> 1, col_offset |-> 1,
         fields |-> <<<<"value", <<6>>>>, <<"ctx", <<7>>>>>>],
        [kind |-> "Name", base |-> "expr", positioned |-> TRUE, lineno |-> 1, col_offset |-> 0,
         fields |-> <<<<"ctx", <<7>>>>>>],
        [kind |-> "Load", base |-> "other", positioned |-> FALSE, lineno |-> 0, col_offset |-> 0,
         fields |-> <<>>],
        [kind |-> "Name", base |-> "expr", positioned |-> TRUE, lineno |-> 1, col_offset |-> 4,
         fields |-> <<<<"ctx", <<7>>>>>>],
        [kind |-> "Index", base |-> "other", positioned |-> FALSE, lineno |-> 0, col_offset |-> 0,
         fields |-> <<<<"value", <<10>>>>>>],
        [kind |-> "Num", base |-> "expr", positioned |-> TRUE, lineno |-> 1, col_offset |-> 7,
         fields |-> <<>>] >> ],
    \* sample 13: chained binary operation (bpo-18374 start)
    \*     1+2+3\n
    [ id |-> 13,
      source |-> <<<<"1", "+", "2", "+", "3", "\n">>>>,
      tokens |-> <<
        [type |-> "ENCODING", string |-> "utf-8", start |-> <<0, 0>>, end |-> <<0, 0>>],
        [type |-> "NUMBER", string |-> "1", start |-> <<1, 0>>, end |-> <<1, 1>>],
        [type |-> "OP", string |-> "+", start |-> <<1, 1>>, end |-> <<1, 2>>],
        [type |-> "NUMBER", string |-> "2", start |-> <<1, 2>>, end |-> <<1, 3>>],
        [type |-> "OP", string |-> "+", start |-> <<1, 3>>, end |-> <<1, 4>>],
        [type |-> "NUMBER", string |-> "3", start |-> <<1, 4>>, end |-> <<1, 5>>],
        [type |-> "NEWLINE", string |-> "\n", start |-> <<1, 5>>, end |-> <<1, 6>>],
        [type |-> "ENDMARKER", string |-> "", start |-> <<2, 0>>, end |-> <<2, 0>>] >>,
      nodes |-> <<
        [kind |-> "Module", base |-> "other", positioned |-> FALSE, lineno |-> 0, col_offset |-> 0,
         fields |-> <<<<"body", <<2>>>>>>],
        [kind |-> "Expr", base |-> "stmt", positioned |-> TRUE, lineno |-> 1, col_offset |-> 0,
         fields |-> <<<<"value", <<3>>>>>>],
        [kind |-> "BinOp", base |-> "expr", positioned |-> TRUE, lineno |-> 1, col_offset |-> 3,
         fields |-> <<<<"left", <<4>>>>, <<"op", <<6>>>>, <<"right", <<8>>>>>>],
        [kind |-> "BinOp", base |-> "expr", positioned |-> TRUE, lineno |-> 1, col_offset |-> 0,
         fields |-> <<<<"left", <<5>>>>, <<"op", <<6>>>>, <<"right", <<7>>>>>>],
        [kind |-> "Num", base |-> "expr", positioned |-> TRUE, lineno |-> 1, col_offset |-> 0,
         fields |-> <<>>],
        [kind |-> "Add", base |-> "other", positioned |-> FALSE, lineno |-> 0, col_offset |-> 0,
         fields |-> <<>>],
        [kind |-> "Num", base |-> "expr", positioned |-> TRUE, lineno |-> 1, col_offset |-> 2,
         fields |-> <<>>],
        [kind |-> "Num", base |-> "expr", positioned |-> TRUE, lineno |-> 1, col_offset |-> 4,
         fields |-> <<>>] >> ],
    \* sample 14: if/else statement
    \*     if a:\n
    \*         b\n
    \*     else:\n
    \*         c\n
    [ id |-> 14,
      source |-> <<<<"i", "f", " ", "a", ":", "\n">>, <<" ", " ", " ", " ", "b", "\n">>, <<"e", "l", "s", "e", ":", "\n">>, <<" ", " ", " ", " ", "c", "\n">>>>,
      tokens |-> <<
        [type |-> "ENCODING", string |-> "utf-8", start |-> <<0, 0>>, end |-> <<0, 0>>],
        [type |-> "NAME", string |-> "if", start |-> <<1, 0>>, end |-> <<1, 2>>],
        [type |-> "NAME", string |-> "a", start |-> <<1, 3>>, end |-> <<1, 4>>],
        [type |-> "OP", string |-> ":", start |-> <<1, 4>>, end |-> <<1, 5>>],
        [type |-> "NEWLINE", string |-> "\n", start |-> <<1, 5>>, end |-> <<1, 6>>],
        [type |-> "INDENT", string |-> "    ", start |-> <<2, 0>>, end |-> <<2, 4>>],
        [type |-> "NAME", string |-> "b", start |-> <<2, 4>>, end |-> <<2, 5>>],
        [type |-> "NEWLINE", string |-> "\n", start |-> <<2, 5>>, end |-> <<2, 6>>],
        [type |-> "DEDENT", string |-> "", start |-> <<3, 0>>, end |-> <<3, 0>>],
        [type |-> "NAME", string |-> "else", start |-> <<3, 0>>, end |-> <<3, 4>>],
        [type |-> "OP", string |-> ":", start |-> <<3, 4>>, end |-> <<3, 5>>],
        [type |-> "NEWLINE", string |-> "\n", start |-> <<3, 5>>, end |-> <<3, 6>>],
        [type |-> "INDENT", string |-> "    ", start |-> <<4, 0>>, end |-> <<4, 4>>],
        [type |-> "NAME", string |-> "c", start |-> <<4, 4>>, end |-> <<4, 5>>],
        [type |-> "NEWLINE", string |-> "\n", start |-> <<4, 5>>, end |-> <<4, 6>>],
        [type |-> "DEDENT", string |-> "", start |-> <<5, 0>>, end |-> <<5, 0>>],
        [type |-> "ENDMARKER", string |-> "", start |-> <<5, 0>>, end |-> <<5, 0>>] >>,
      nodes |-> <<
        [kind |-> "Module", base |-> "other", positioned |-> FALSE, lineno |-> 0, col_offset |-> 0,
         fields |-> <<<<"body", <<2>>>>>>],
        [kind |-> "If", base |-> "stmt", positioned |-> TRUE, lineno |-> 1, col_offset |-> 0,
         fields |-> <<<<"test", <<3>>>>, <<"body", <<5>>>>, <<"orelse", <<7>>>>>>],
        [kind |-> "Name", base |-> "expr", positioned |-> TRUE, lineno |-> 1, col_offset |-> 3,
         fields |-> <<<<"ctx", <<4>>>>>>],
        [kind |-> "Load", base |-> "other", positioned |-> FALSE, lineno |-> 0, col_offset |-> 0,
         fields |-> <<>>],
        [kind |-> "Expr", base |-> "stmt", positioned |-> TRUE, lineno |-> 2, col_offset |-> 4,
         fields |-> <<<<"value", <<6>>>>>>],
        [kind |-> "Name", base |-> "expr", positioned |-> TRUE, lineno |-> 2, col_offset |-> 4,
         fields |-> <<<<"ctx", <<4>>>>>>],
        [kind |-> "Expr", base |-> "stmt", positioned |-> TRUE, lineno |-> 4, col_offset |-> 4,
         fields |-> <<<<"value", <<8>>>>>>],
        [kind |-> "Name", base |-> "expr", positioned |-> TRUE, lineno |-> 4, col_offset |-> 4,
         fields |-> <<<<"ctx", <<4>>>>>>] >> ],
    \* sample 15: two statements on a line
    \*     a;b\n
    [ id |-> 15,
      source |-> <<<<"a", ";", "b", "\n">>>>,
      tokens |-> <<
        [type |-> "ENCODING", string |-> "utf-8", start |-> <<0, 0>>, end |-> <<0, 0>>],
        [type |-> "NAME", string |-> "a", start |-> <<1, 0>>, end |-> <<1, 1>>],
        [type |-> "OP", string |-> ";", start |-> <<1, 1>>, end |-> <<1, 2>>],
        [type |-> "NAME", string |-> "b", start |-> <<1, 2>>, end |-> <<1, 3>>],
        [type |-> "NEWLINE", string |-> "\n", start |-> <<1, 3>>, end |-> <<1, 4>>],
        [type |-> "ENDMARKER", string |-> "", start |-> <<2, 0>>, end |-> <<2, 0>>] >>,
      nodes |-> <<
        [kind |-> "Module", base |-> "other", positioned |-> FALSE, lineno |-> 0, col_offset |-> 0,
         fields |-> <<<<"body", <<2, 5>>>>>>],
        [kind |-> "Expr", base |-> "stmt", positioned |-> TRUE, lineno |-> 1, col_offset |-> 0,
         fields |-> <<<<"value", <<3>>>>>>],
        [kind |-> "Name", base |-> "expr", positioned |-> TRUE, lineno |-> 1, col_offset |-> 0,
         fields |-> <<<<"ctx", <<4>>>>>>],
        [kind |-> "Load", base |-> "other", positioned |-> FALSE, lineno |-> 0, col_offset |-> 0,
         fields |-> <<>>],
        [kind |-> "Expr", base |-> "stmt", positioned |-> TRUE, lineno |-> 1, col_offset |-> 2,
         fields |-> <<<<"value", <<6>>>>>>],
        [kind |-> "Name", base |-> "expr", positioned |-> TRUE, lineno |-> 1, col_offset |-> 2,
         fields |-> <<<<"ctx", <<4>>>>>>] >> ],
    \* sample 16: Python 3.6 f-string: two Str nodes, one STRING token
    \*     f\"a{x}b\"\n
    [ id |-> 16,
      source |-> <<<<"f", "\"", "a", "{", "x", "}", "b", "\"", "\n">>>>,
      tokens |-> <<
        [type |-> "ENCODING", string |-> "utf-8", start |-> <<0, 0>>, end |-> <<0, 0>>],
        [type |-> "STRING", string |-> "f\"a{x}b\"", start |-> <<1, 0>>, end |-> <<1, 8>>],
        [type |-> "NEWLINE", string |-> "\n", start |-> <<1, 8>>, end |-> <<1, 9>>],
        [type |-> "ENDMARKER", string |-> "", start |-> <<2, 0>>, end |-> <<2, 0>>] >>,
      nodes |-> <<
        [kind |-> "Module", base |-> "other", positioned |-> FALSE, lineno |-> 0, col_offset |-> 0,
         fields |-> <<<<"body", <<2>>>>>>],
        [kind |-> "Expr", base |-> "stmt", positioned |-> TRUE, lineno |-> 1, col_offset |-> 0,
         fields |-> <<<<"value", <<3>>>>>>],
        [kind |-> "JoinedStr", base |-> "expr", positioned |-> TRUE, lineno |-> 1, col_offset |-> 0,
         fields |-> <<<<"values", <<4, 5, 8>>>>>>],
        [kind |-> "Str", base |-> "expr", positioned |-> TRUE, lineno |-> 1, col_offset |-> 0,
         fields |-> <<>>],
        [kind |-> "FormattedValue", base |-> "expr", positioned |-> TRUE, lineno |-> 1, col_offset |-> 0,
         fields |-> <<<<"value", <<6>>>>, <<"format_spec", <<>>>>>>],
        [kind |-> "Name", base |-> "expr", positioned |-> TRUE, lineno |-> 1, col_offset |-> 4,
         fields |-> <<<<"ctx", <<7>>>>>>],
        [kind |-> "Load", base |-> "other", positioned |-> FALSE, lineno |-> 0, col_offset |-> 0,
         fields |-> <<>>],
        [kind |-> "Str", base |-> "expr", positioned |-> TRUE, lineno |-> 1, col_offset |-> 0,
         fields |-> <<>>] >> ],
    \* sample 17: tuple and list displays
    \*     (a, [b])\n
    [ id |-> 17,
      source |-> <<<<"(", "a", ",", " ", "[", "b", "]", ")", "\n">>>>,
      tokens |-> <<
        [type |-> "ENCODING", string |-> "utf-8", start |-> <<0, 0>>, end |-> <<0, 0>>],
        [type |-> "OP", string |-> "(", start |-> <<1, 0>>, end |-> <<1, 1>>],
        [type |-> "NAME", string |-> "a", start |-> <<1, 1>>, end |-> <<1, 2>>],
        [type |-> "OP", string |-> ",", start |-> <<1, 2>>, end |-> <<1, 3>>],
        [type |-> "OP", string |-> "[", start |-> <<1, 4>>, end |-> <<1, 5>>],
        [type |-> "NAME", string |-> "b", start |-> <<1, 5>>, end |-> <<1, 6>>],
        [type |-> "OP", string |-> "]", start |-> <<1, 6>>, end |-> <<1, 7>>],
        [type |-> "OP", string |-> ")", start |-> <<1, 7>>, end |-> <<1, 8>>],
        [type |-> "NEWLINE", string |-> "\n", start |-> <<1, 8>>, end |-> <<1, 9>>],
        [type |-> "ENDMARKER", string |-> "", start |-> <<2, 0>>, end |-> <<2, 0>>] >>,
      nodes |-> <<
        [kind |-> "Module", base |-> "other", positioned |-> FALSE, lineno |-> 0, col_offset |-> 0,
         fields |-> <<<<"body", <<2>>>>>>],
        [kind |-> "Expr", base |-> "stmt", positioned |-> TRUE, lineno |-> 1, col_offset |-> 0,
         fields |-> <<<<"value", <<3>>>>>>],
        [kind |-> "Tuple", base |-> "expr", positioned |-> TRUE, lineno |-> 1, col_offset |-> 1,
         fields |-> <<<<"elts", <<4, 6>>>>, <<"ctx", <<5>>>>>>],
        [kind |-> "Name", base |-> "expr", positioned |-> TRUE, lineno |-> 1, col_offset |-> 1,
         fields |-> <<<<"ctx", <<5>>>>>>],
        [kind |-> "Load", base |-> "other", positioned |-> FALSE, lineno |-> 0, col_offset |-> 0,
         fields |-> <<>>],
        [kind |-> "List", base |-> "expr", positioned |-> TRUE, lineno |-> 1, col_offset |-> 4,
         fields |-> <<<<"elts", <<7>>>>, <<"ctx", <<5>>>>>>],
        [kind |-> "Name", base |-> "expr", positioned |-> TRUE, lineno |-> 1, col_offset |-> 5,
         fields |-> <<<<"ctx", <<5>>>>>>] >> ],
    \* sample 18: comment, blank line, unary operation
    \*     x = 1  # c\n
    \*     \n
    \*     y = -x\n
    [ id |-> 18,
      source |-> <<<<"x", " ", "=", " ", "1", " ", " ", "#", " ", "c", "\n">>, <<"\n">>, <<"y", " ", "=", " ", "-", "x", "\n">>>>,
      tokens |-> <<
        [type |-> "ENCODING", string |-> "utf-8", start |-> <<0, 0>>, end |-> <<0, 0>>],
        [type |-> "NAME", string |-> "x", start |-> <<1, 0>>, end |-> <<1, 1>>],
        [type |-> "OP", string |-> "=", start |-> <<1, 2>>, end |-> <<1, 3>>],
        [type |-> "NUMBER", string |-> "1", start |-> <<1, 4>>, end |-> <<1, 5>>],
        [type |-> "COMMENT", string |-> "# c", start |-> <<1, 7>>, end |-> <<1, 10>>],
        [type |-> "NEWLINE", string |-> "\n", start |-> <<1, 10>>, end |-> <<1, 11>>],
        [type |-> "NL", string |-> "\n", start |-> <<2, 0>>, end |-> <<2, 1>>],
        [type |-> "NAME", string |-> "y", start |-> <<3, 0>>, end |-> <<3, 1>>],
        [type |-> "OP", string |-> "=", start |-> <<3, 2>>, end |-> <<3, 3>>],
        [type |-> "OP", string |-> "-", start |-> <<3, 4>>, end |-> <<3, 5>>],
        [type |-> "NAME", string |-> "x", start |-> <<3, 5>>, end |-> <<3, 6>>],
        [type |-> "NEWLINE", string |-> "\n", start |-> <<3, 6>>, end |-> <<3, 7>>],
        [type |-> "ENDMARKER", string |-> "", start |-> <<4, 0>>, end |-> <<4, 0>>] >>,
      nodes |-> <<
        [kind |-> "Module", base |-> "other", positioned |-> FALSE, lineno |-> 0, col_offset |-> 0,
         fields |-> <<<<"body", <<2, 6>>>>>>],
        [kind |-> "Assign", base |-> "stmt", positioned |-> TRUE, lineno |-> 1, col_offset |-> 0,
         fields |-> <<<<"targets", <<3>>>>, <<"value", <<5>>>>>>],
        [kind |-> "Name", base |-> "expr", positioned |-> TRUE, lineno |-> 1, col_offset |-> 0,
         fields |-> <<<<"ctx", <<4>>>>>>],
        [kind |-> "Store", base |-> "other", positioned |-> FALSE, lineno |-> 0, col_offset |-> 0,
         fields |-> <<>>],
        [kind |-> "Num", base |-> "expr", positioned |-> TRUE, lineno |-> 1, col_offset |-> 4,
         fields |-> <<>>],
        [kind |-> "Assign", base |-> "stmt", positioned |-> TRUE, lineno |-> 3, col_offset |-> 0,
         fields |-> <<<<"targets", <<7>>>>, <<"value", <<8>>>>>>],
        [kind |-> "Name", base |-> "expr", positioned |-> TRUE, lineno |-> 3, col_offset |-> 0,
         fields |-> <<<<"ctx", <<4>>>>>>],
        [kind |-> "UnaryOp", base |-> "expr", positioned |-> TRUE, lineno |-> 3, col_offset |-> 4,
         fields |-> <<<<"op", <<9>>>>, <<"operand", <<10>>>>>>],
        [kind |-> "USub", base |-> "other", positioned |-> FALSE, lineno |-> 0, col_offset |-> 0,
         fields |-> <<>>],
        [kind |-> "Name", base |-> "expr", positioned |-> TRUE, lineno |-> 3, col_offset |-> 5,
         fields |-> <<<<"ctx", <<11>>>>>>],
        [kind |-> "Load", base |-> "other", positioned |-> FALSE, lineno |-> 0, col_offset |-> 0,
         fields |-> <<>>] >> ],
    \* sample 19: empty source
    [ id |-> 19,
      source |-> <<>>,
      tokens |-> <<
        [type |-> "ENCODING", string |-> "utf-8", start |-> <<0, 0>>, end |-> <<0, 0>>],
        [type |-> "ENDMARKER", string |-> "", start |-> <<1, 0>>, end |-> <<1, 0>>] >>,
      nodes |-> <<
        [kind |-> "Module", base |-> "other", positioned |-> FALSE, lineno |-> 0, col_offset |-> 0,
         fields |-> <<<<"body", <<>>>>>>] >> ],
    \* sample 20: while, not, comparison
    \*     while not a:\n
    \*         b = c < d\n
    [ id |-> 20,
      source |-> <<<<"w", "h", "i", "l", "e", " ", "n", "o", "t", " ", "a", ":", "\n">>, <<" ", " ", " ", " ", "b", " ", "=", " ", "c", " ", "<", " ", "d", "\n">>>>,
      tokens |-> <<
        [type |-> "ENCODING", string |-> "utf-8", start |-> <<0, 0>>, end |-> <<0, 0>>],
        [type |-> "NAME", string |-> "while", start |-> <<1, 0>>, end |-> <<1, 5>>],
        [type |-> "NAME", string |-> "not", start |-> <<1, 6>>, end |-> <<1, 9>>],
        [type |-> "NAME", string |-> "a", start |-> <<1, 10>>, end |-> <<1, 11>>],
        [type |-> "OP", string |-> ":", start |-> <<1, 11>>, end |-> <<1, 12>>],
        [type |-> "NEWLINE", string |-> "\n", start |-> <<1, 12>>, end |-> <<1, 13>>],
        [type |-> "INDENT", string |-> "    ", start |-> <<2, 0>>, end |-> <<2, 4>>],
        [type |-> "NAME", string |-> "b", start |-> <<2, 4>>, end |-> <<2, 5>>],
        [type |-> "OP", string |-> "=", start |-> <<2, 6>>, end |-> <<2, 7>>],
        [type |-> "NAME", string |-> "c", start |-> <<2, 8>>, end |-> <<2, 9>>],
        [type |-> "OP", string |-> "<", start |-> <<2, 10>>, end |-> <<2, 11>>],
        [type |-> "NAME", string |-> "d", start |-> <<2, 12>>, end |-> <<2, 13>>],
        [type |-> "NEWLINE", string |-> "\n", start |-> <<2, 13>>, end |-> <<2, 14>>],
        [type |-> "DEDENT", string |-> "", start |-> <<3, 0>>, end |-> <<3, 0>>],
        [type |-> "ENDMARKER", string |-> "", start |-> <<3, 0>>, end |-> <<3, 0>>] >>,
      nodes |-> <<
        [kind |-> "Module", base |-> "other", positioned |-> FALSE, lineno |-> 0, col_offset |-> 0,
         fields |-> <<<<"body", <<2>>>>>>],
        [kind |-> "While", base |-> "stmt", positioned |-> TRUE, lineno |-> 1, col_offset |-> 0,
         fields |-> <<<<"test", <<3>>>>, <<"body", <<7>>>>, <<"orelse", <<>>>>>>],
        [kind |-> "UnaryOp", base |-> "expr", positioned |-> TRUE, lineno |-> 1, col_offset |-> 6,
         fields |-> <<<<"op", <<4>>>>, <<"operand", <<5>>>>>>],
        [kind |-> "Not", base |-> "other", positioned |-> FALSE, lineno |-> 0, col_offset |-> 0,
         fields |-> <<>>],
        [kind |-> "Name", base |-> "expr", positioned |-> TRUE, lineno |-> 1, col_offset |-> 10,
         fields |-> <<<<"ctx", <<6>>>>>>],
        [kind |-> "Load", base |-> "other", positioned |-> FALSE, lineno |-> 0, col_offset |-> 0,
         fields |-> <<>>],
        [kind |-> "Assign", base |-> "stmt", positioned |-> TRUE, lineno |-> 2, col_offset |-> 4,
         fields |-> <<<<"targets", <<8>>>>, <<"value", <<10>>>>>>],
        [kind |-> "Name", base |-> "expr", positioned |-> TRUE, lineno |-> 2, col_offset |-> 4,
         fields |-> <<<<"ctx", <<9>>>>>>],
        [kind |-> "Store", base |-> "other", positioned |-> FALSE, lineno |-> 0, col_offset |-> 0,
         fields |-> <<>>],
        [kind |-> "Compare", base |-> "expr", positioned |-> TRUE, lineno |-> 2, col_offset |-> 8,
         fields |-> <<<<"left", <<11>>>>, <<"ops", <<12>>>>, <<"comparators", <<13>>>>>>],
        [kind |-> "Name", base |-> "expr", positioned |-> TRUE, lineno |-> 2, col_offset |-> 8,
         fields |-> <<<<"ctx", <<6>>>>>>],
        [kind |-> "Lt", base |-> "other", positioned |-> FALSE, lineno |-> 0, col_offset |-> 0,
         fields |-> <<>>],
        [kind |-> "Name", base |-> "expr", positioned |-> TRUE, lineno |-> 2, col_offset |-> 12,
         fields |-> <<<<"ctx", <<6>>>>>>] >> ],
    \* sample 21: nested calls and attribute as arguments
    \*     f(g(), h.i)\n
    [ id |-> 21,
      source |-> <<<<"f", "(", "g", "(", ")", ",", " ", "h", ".", "i", ")", "\n">>>>,
      tokens |-> <<
        [type |-> "ENCODING", string |-> "utf-8", start |-> <<0, 0>>, end |-> <<0, 0>>],
        [type |-> "NAME", string |-> "f", start |-> <<1, 0>>, end |-> <<1, 1>>],
        [type |-> "OP", string |-> "(", start |-> <<1, 1>>, end |-> <<1, 2>>],
        [type |-> "NAME", string |-> "g", start |-> <<1, 2>>, end |-> <<1, 3>>],
        [type |-> "OP", string |-> "(", start |-> <<1, 3>>, end |-> <<1, 4>>],
        [type |-> "OP", string |-> ")", start |-> <<1, 4>>, end |-> <<1, 5>>],
        [type |-> "OP", string |-> ",", start |-> <<1, 5>>, end |-> <<1, 6>>],
        [type |-> "NAME", string |-> "h", start |-> <<1, 7>>, end |-> <<1, 8>>],
        [type |-> "OP", string |-> ".", start |-> <<1, 8>>, end |-> <<1, 9>>],
        [type |-> "NAME", string |-> "i", start |-> <<1, 9>>, end |-> <<1, 10>>],
        [type |-> "OP", string |-> ")", start |-> <<1, 10>>, end |-> <<1, 11>>],
        [type |-> "NEWLINE", string |-> "\n", start |-> <<1, 11>>, end |-> <<1, 12>>],
        [type |-> "ENDMARKER", string |-> "", start |-> <<2, 0>>, end |-> <<2, 0>>] >>,
      nodes |-> <<
        [kind |-> "Module", base |-> "other", positioned |-> FALSE, lineno |-> 0, col_offset |-> 0,
         fields |-> <<<<"body", <<2>>>>>>],
        [kind |-> "Expr", base |-> "stmt", positioned |-> TRUE, lineno |-> 1, col_offset |-> 0,
         fields |-> <<<<"value", <<3>>>>>>],
        [kind |-> "Call", base |-> "expr", positioned |-> TRUE, lineno |-> 1, col_offset |-> 0,
         fields |-> <<<<"func", <<4>>>>, <<"args", <<6, 8>>>>, <<"keywords", <<>>>>, <<"starargs", <<>>>>, <<"kwargs", <<>>>>>>],
        [kind |-> "Name", base |-> "expr", positioned |-> TRUE, lineno |-> 1, col_offset |-> 0,
         fields |-> <<<<"ctx", <<5>>>>>>],
        [kind |-> "Load", base |-> "other", positioned |-> FALSE, lineno |-> 0, col_offset |-> 0,
         fields |-> <<>>],
        [kind |-> "Call", base |-> "expr", positioned |-> TRUE, lineno |-> 1, col_offset |-> 2,
         fields |-> <<<<"func", <<7>>>>, <<"args", <<>>>>, <<"keywords", <<>>>>, <<"starargs", <<>>>>, <<"kwargs", <<>>>>>>],
        [kind |-> "Name", base |-> "expr", positioned |-> TRUE, lineno |-> 1, col_offset |-> 2,
         fields |-> <<<<"ctx", <<5>>>>>>],
        [kind |-> "Attribute", base |-> "expr", positioned |-> TRUE, lineno |-> 1, col_offset |-> 7,
         fields |-> <<<<"value", <<9>>>>, <<"ctx", <<5>>>>>>],
        [kind |-> "Name", base |-> "expr", positioned |-> TRUE, lineno |-> 1, col_offset |-> 7,
         fields |-> <<<<"ctx", <<5>>>>>>] >> ],
    \* sample 22: triple-quoted docstring statement
    \*     \"\"\"a\n
    \*     b\"\"\"\n
    \*     x\n
    [ id |-> 22,
      source |-> <<<<"\"", "\"", "\"", "a", "\n">>, <<"b", "\"", "\"", "\"", "\n">>, <<"x", "\n">>>>,
      tokens |-> <<
        [type |-> "ENCODING", string |-> "utf-8", start |-> <<0, 0>>, end |-> <<0, 0>>],
        [type |-> "STRING", string |-> "\"\"\"a\nb\"\"\"", start |-> <<1, 0>>, end |-> <<2, 4>>],
        [type |-> "NEWLINE", string |-> "\n", start |-> <<2, 4>>, end |-> <<2, 5>>],
        [type |-> "NAME", string |-> "x", start |-> <<3, 0>>, end |-> <<3, 1>>],
        [type |-> "NEWLINE", string |-> "\n", start |-> <<3, 1>>, end |-> <<3, 2>>],
        [type |-> "ENDMARKER", string |-> "", start |-> <<4, 0>>, end |-> <<4, 0>>] >>,
      nodes |-> <<
        [kind |-> "Module", base |-> "other", positioned |-> FALSE, lineno |-> 0, col_offset |-> 0,
         fields |-> <<<<"body", <<2, 4>>>>>>],
        [kind |-> "Expr", base |-> "stmt", positioned |-> TRUE, lineno |-> 2, col_offset |-> -1,
         fields |-> <<<<"value", <<3>>>>>>],
        [kind |-> "Str", base |-> "expr", positioned |-> TRUE, lineno |-> 2, col_offset |-> -1,
         fields |-> <<>>],
        [kind |-> "Expr", base |-> "stmt", positioned |-> TRUE, lineno |-> 3, col_offset |-> 0,
         fields |-> <<<<"value", <<5>>>>>>],
        [kind |-> "Name", base |-> "expr", positioned |-> TRUE, lineno |-> 3, col_offset |-> 0,
         fields |-> <<<<"ctx", <<6>>>>>>],
        [kind |-> "Load", base |-> "other", positioned |-> FALSE, lineno |-> 0, col_offset |-> 0,
         fields |-> <<>>] >> ],
    \* sample 23: multi-byte identifier at the start of a line
    \*     <e9> = 1\n
    [ id |-> 23,
      source |-> <<<<"<e9>", " ", "=", " ", "1", "\n">>>>,
      tokens |-> <<
        [type |-> "ENCODING", string |-> "utf-8", start |-> <<0, 0>>, end |-> <<0, 0>>],
        [type |-> "NAME", string |-> "<e9>", start |-> <<1, 0>>, end |-> <<1, 1>>],
        [type |-> "OP", string |-> "=", start |-> <<1, 2>>, end |-> <<1, 3>>],
        [type |-> "NUMBER", string |-> "1", start |-> <<1, 4>>, end |-> <<1, 5>>],
        [type |-> "NEWLINE", string |-> "\n", start |-> <<1, 5>>, end |-> <<1, 6>>],
        [type |-> "ENDMARKER", string |-> "", start |-> <<2, 0>>, end |-> <<2, 0>>] >>,
      nodes |-> <<
        [kind |-> "Module", base |-> "other", positioned |-> FALSE, lineno |-> 0, col_offset |-> 0,
         fields |-> <<<<"body", <<2>>>>>>],
        [kind |-> "Assign", base |-> "stmt", positioned |-> TRUE, lineno |-> 1, col_offset |-> 0,
         fields |-> <<<<"targets", <<3>>>>, <<"value", <<5>>>>>>],
        [kind |-> "Name", base |-> "expr", positioned |-> TRUE, lineno |-> 1, col_offset |-> 0,
         fields |-> <<<<"ctx", <<4>>>>>>],
        [kind |-> "Store", base |-> "other", positioned |-> FALSE, lineno |-> 0, col_offset |-> 0,
         fields |-> <<>>],
        [kind |-> "Num", base |-> "expr", positioned |-> TRUE, lineno |-> 1, col_offset |-> 5,
         fields |-> <<>>] >> ],
    \* sample 24: call of a parenthesised callee after multi-byte characters
    \*     <e9><e9>;(a)()\n
    [ id |-> 24,
      source |-> <<<<"<e9>", "<e9>", ";", "(", "a", ")", "(", ")", "\n">>>>,
      tokens |-> <<
        [type |-> "ENCODING", string |-> "utf-8", start |-> <<0, 0>>, end |-> <<0, 0>>],
        [type |-> "NAME", string |-> "<e9><e9>", start |-> <<1, 0>>, end |-> <<1, 2>>],
        [type |-> "OP", string |-> ";", start |-> <<1, 2>>, end |-> <<1, 3>>],
        [type |-> "OP", string |-> "(", start |-> <<1, 3>>, end |-> <<1, 4>>],
        [type |-> "NAME", string |-> "a", start |-> <<1, 4>>, end |-> <<1, 5>>],
        [type |-> "OP", string |-> ")", start |-> <<1, 5>>, end |-> <<1, 6>>],
        [type |-> "OP", string |-> "(", start |-> <<1, 6>>, end |-> <<1, 7>>],
        [type |-> "OP", string |-> ")", start |-> <<1, 7>>, end |-> <<1, 8>>],
        [type |-> "NEWLINE", string |-> "\n", start |-> <<1, 8>>, end |-> <<1, 9>>],
        [type |-> "ENDMARKER", string |-> "", start |-> <<2, 0>>, end |-> <<2, 0>>] >>,
      nodes |-> <<
        [kind |-> "Module", base |-> "other", positioned |-> FALSE, lineno |-> 0, col_offset |-> 0,
         fields |-> <<<<"body", <<2, 5>>>>>>],
        [kind |-> "Expr", base |-> "stmt", positioned |-> TRUE, lineno |-> 1, col_offset |-> 0,
         fields |-> <<<<"value", <<3>>>>>>],
        [kind |-> "Name", base |-> "expr", positioned |-> TRUE, lineno |-> 1, col_offset |-> 0,
         fields |-> <<<<"ctx", <<4>>>>>>],
        [kind |-> "Load", base |-> "other", positioned |-> FALSE, lineno |-> 0, col_offset |-> 0,
         fields |-> <<>>],
        [kind |-> "Expr", base |-> "stmt", positioned |-> TRUE, lineno |-> 1, col_offset |-> 5,
         fields |-> <<<<"value", <<6>>>>>>],
        [kind |-> "Call", base |-> "expr", positioned |-> TRUE, lineno |-> 1, col_offset |-> 5,
         fields |-> <<<<"func", <<7>>>>, <<"args", <<>>>>, <<"keywords", <<>>>>, <<"starargs", <<>>>>, <<"kwargs", <<>>>>>>],
        [kind |-> "Name", base |-> "expr", positioned |-> TRUE, lineno |-> 1, col_offset |-> 6,
         fields |-> <<<<"ctx", <<4>>>>>>] >> ],
    \* sample 25: call without arguments as the body of a conditional expression
    \*     f() if bb else 2\n
    [ id |-> 25,
      source |-> <<<<"f", "(", ")", " ", "i", "f", " ", "b", "b", " ", "e", "l", "s", "e", " ", "2", "\n">>>>,
      tokens |-> <<
        [type |-> "ENCODING", string |-> "utf-8", start |-> <<0, 0>>, end |-> <<0, 0>>],
        [type |-> "NAME", string |-> "f", start |-> <<1, 0>>, end |-> <<1, 1>>],
        [type |-> "OP", string |-> "(", start |-> <<1, 1>>, end |-> <<1, 2>>],
        [type |-> "OP", string |-> ")", start |-> <<1, 2>>, end |-> <<1, 3>>],
        [type |-> "NAME", string |-> "if", start |-> <<1, 4>>, end |-> <<1, 6>>],
        [type |-> "NAME", string |-> "bb", start |-> <<1, 7>>, end |-> <<1, 9>>],
        [type |-> "NAME", string |-> "else", start |-> <<1, 10>>, end |-> <<1, 14>>],
        [type |-> "NUMBER", string |-> "2", start |-> <<1, 15>>, end |-> <<1, 16>>],
        [type |-> "NEWLINE", string |-> "\n", start |-> <<1, 16>>, end |-> <<1, 17>>],
        [type |-> "ENDMARKER", string |-> "", start |-> <<2, 0>>, end |-> <<2, 0>>] >>,
      nodes |-> <<
        [kind |-> "Module", base |-> "other", positioned |-> FALSE, lineno |-> 0, col_offset |-> 0,
         fields |-> <<<<"body", <<2>>>>>>],
        [kind |-> "Expr", base |-> "stmt", positioned |-> TRUE, lineno |-> 1, col_offset |-> 0,
         fields |-> <<<<"value", <<3>>>>>>],
        [kind |-> "IfExp", base |-> "expr", positioned |-> TRUE, lineno |-> 1, col_offset |-> 0,
         fields |-> <<<<"test", <<4>>>>, <<"body", <<6>>>>, <<"orelse", <<8>>>>>>],
        [kind |-> "Name", base |-> "expr", positioned |-> TRUE, lineno |-> 1, col_offset |-> 7,
         fields |-> <<<<"ctx", <<5>>>>>>],
        [kind |-> "Load", base |-> "other", positioned |-> FALSE, lineno |-> 0, col_offset |-> 0,
         fields |-> <<>>],
        [kind |-> "Call", base |-> "expr", positioned |-> TRUE, lineno |-> 1, col_offset |-> 0,
         fields |-> <<<<"func", <<7>>>>, <<"args", <<>>>>, <<"keywords", <<>>>>, <<"starargs", <<>>>>, <<"kwargs", <<>>>>>>],
        [kind |-> "Name", base |-> "expr", positioned |-> TRUE, lineno |-> 1, col_offset |-> 0,
         fields |-> <<<<"ctx", <<5>>>>>>],
        [kind |-> "Num", base |-> "expr", positioned |-> TRUE, lineno |-> 1, col_offset |-> 15,
         fields |-> <<>>] >> ],
    \* sample 26: lambda with a bare star: its window holds no token that can end it
    \*     lambda *, a: 0\n
    [ id |-> 26,
      source |-> <<<<"l", "a", "m", "b", "d", "a", " ", "*", ",", " ", "a", ":", " ", "0", "\n">>>>,
      tokens |-> <<
        [type |-> "ENCODING", string |-> "utf-8", start |-> <<0, 0>>, end |-> <<0, 0>>],
        [type |-> "NAME", string |-> "lambda", start |-> <<1, 0>>, end |-> <<1, 6>>],
        [type |-> "OP", string |-> "*", start |-> <<1, 7>>, end |-> <<1, 8>>],
        [type |-> "OP", string |-> ",", start |-> <<1, 8>>, end |-> <<1, 9>>],
        [type |-> "NAME", string |-> "a", start |-> <<1, 10>>, end |-> <<1, 11>>],
        [type |-> "OP", string |-> ":", start |-> <<1, 11>>, end |-> <<1, 12>>],
        [type |-> "NUMBER", string |-> "0", start |-> <<1, 13>>, end |-> <<1, 14>>],
        [type |-> "NEWLINE", string |-> "\n", start |-> <<1, 14>>, end |-> <<1, 15>>],
        [type |-> "ENDMARKER", string |-> "", start |-> <<2, 0>>, end |-> <<2, 0>>] >>,
      nodes |-> <<
        [kind |-> "Module", base |-> "other", positioned |-> FALSE, lineno |-> 0, col_offset |-> 0,
         fields |-> <<<<"body", <<2>>>>>>],
        [kind |-> "Expr", base |-> "stmt", positioned |-> TRUE, lineno |-> 1, col_offset |-> 0,
         fields |-> <<<<"value", <<3>>>>>>],
        [kind |-> "Lambda", base |-> "expr", positioned |-> TRUE, lineno |-> 1, col_offset |-> 0,
         fields |-> <<<<"args", <<4>>>>, <<"body", <<6>>>>>>],
        [kind |-> "arguments", base |-> "other", positioned |-> FALSE, lineno |-> 0, col_offset |-> 0,
         fields |-> <<<<"args", <<>>>>, <<"vararg", <<>>>>, <<"kwonlyargs", <<5>>>>, <<"kw_defaults", <<>>>>, <<"kwarg", <<>>>>, <<"defaults", <<>>>>>>],
        [kind |-> "arg", base |-> "other", positioned |-> TRUE, lineno |-> 1, col_offset |-> 10,
         fields |-> <<<<"annotation", <<>>>>>>],
        [kind |-> "Num", base |-> "expr", positioned |-> TRUE, lineno |-> 1, col_offset |-> 13,
         fields |-> <<>>] >> ]
  >>
\* END SAMPLES

(***************************************************************************)
(* State.  A node is its index in the sample's node table; the unpositioned*)
(* operator and context nodes are shared, as the parser shares them.       *)
(***************************************************************************)
VARIABLES
  sample,          \* the (tree, source) pair the functions are called with
  phase,           \* "entry", "fix", "sweep", "done", "raised"
  all_tokens,      \* mark_text_ranges: all_tokens (line 317)
  string_tokens,   \* fix_ast_problems: string_tokens (line 394)
  lineno,          \* node.lineno of every node
  col_offset,      \* node.col_offset of every node
  end_lineno,      \* node.end_lineno, where the node carries it
  end_col_offset,  \* node.end_col_offset, where the node carries it
  marked,          \* the nodes that carry end_lineno and end_col_offset
  fix_stack,       \* the active calls of fix_node: [node, todo]
  stack,           \* the active calls of _mark_text_ranges_rec: [node, tokens, todo]
  prelim,          \* (prelim_end_lineno, prelim_end_col_offset) being passed or returned
  answer,          \* the last query made of the ranged tree and its result
  sweeps,          \* calls of _mark_text_ranges_rec on the tree completed, and the ends the first left
  tk,              \* a call of tokenize_with_char_offsets: its locals and result
  xt               \* a call of extract_text_range: its arguments and result

vars == <<sample, phase, all_tokens, string_tokens, lineno, col_offset, end_lineno,
          end_col_offset, marked, fix_stack, stack, prelim, answer, sweeps, tk, xt>>

Nodes == 1 .. Len(sample.nodes)
Node(n) == sample.nodes[n]
Root == 1
NoNode == 0

Last(s) == s[Len(s)]
AllButLast(s) == SubSeq(s, 1, Len(s) - 1)
Reverse(s) == [i \in 1 .. Len(s) |-> s[Len(s) + 1 - i]]

RECURSIVE Flatten(_)
Flatten(ss) == IF ss = <<>> THEN <<>> ELSE Head(ss) \o Flatten(Tail(ss))

\* the value of a field that holds nodes: a sequence (empty for None or [])
Field(n, name) ==
  LET fs == Node(n).fields
      hit == {i \in 1 .. Len(fs) : fs[i][1] = name}
  IN IF hit = {} THEN <<>> ELSE fs[CHOOSE i \in hit : TRUE][2]

HasField(n, name) == \E i \in 1 .. Len(Node(n).fields) : Node(n).fields[i][1] = name

\* ast.iter_child_nodes: the node-valued fields in _fields order, lists flattened
iter_child_nodes(n) == Flatten([i \in 1 .. Len(Node(n).fields) |-> Node(n).fields[i][2]])

\* positions compare as Python tuples (line, col)
PosLess(a, b) == a[1] < b[1] \/ (a[1] = b[1] /\ a[2] < b[2])
PosLeq(a, b) == a = b \/ PosLess(a, b)

\* tok[STRING] in "({[" and tok[STRING] in ")}]" are substring tests
InOpeners(s) == s \in {"", "(", "{", "[", "({", "{[", "({["}
InClosers(s) == s \in {"", ")", "}", "]", ")}", "}]", ")}]"}

\* _extract_tokens without the test of the tokens' start
extract_tokens_before_end(tokens, l, c, el, ec) ==
  SelectSeq(tokens, LAMBDA tok :
       /\ tok.end[1] <= el
       /\ (tok.end[2] <= ec \/ tok.end[1] < el)
       /\ tok.string # "")

_extract_tokens(tokens, l, c, el, ec) ==
  SelectSeq(tokens, LAMBDA tok :
       /\ tok.start[1] >= l
       /\ (tok.start[2] >= c \/ tok.start[1] > l)
       /\ tok.end[1] <= el
       /\ (tok.end[2] <= ec \/ tok.end[1] < el)
       /\ tok.string # "")

JunkKeywords ==
  {"and", "as", "assert", "class", "def", "del", "elif", "else", "except", "exec",
   "finally", "for", "from", "global", "if", "import", "in", "is", "lambda", "not",
   "or", "try", "while", "with", "yield"}

\* the loop condition of _strip_trailing_junk_from_expressions; tokenize reports
\* every operator with type OP
IsTrailingJunk(tok) ==
  \/ /\ tok.type \notin {"RBRACE", "RPAR", "RSQB", "NAME", "NUMBER", "STRING"}
     /\ ~(tok.type = "ELLIPSIS")
     /\ ~InClosers(tok.string)
  \/ tok.string \in JunkKeywords

\* _strip_trailing_junk_from_expressions that removes nothing
keep_trailing_junk(tokens) == [raised |-> tokens = <<>>, tokens |-> tokens]

\* The trimming functions change the list in place; each is the list it leaves,
\* with raised = TRUE where tokens[-1] of an empty list raises IndexError.
RECURSIVE _strip_trailing_junk_from_expressions(_)
_strip_trailing_junk_from_expressions(tokens) ==
  IF tokens = <<>> THEN [raised |-> TRUE, tokens |-> tokens]
  ELSE IF IsTrailingJunk(Last(tokens))
       THEN _strip_trailing_junk_from_expressions(AllButLast(tokens))
       ELSE [raised |-> FALSE, tokens |-> tokens]

RECURSIVE StripClosersFrom(_, _, _, _)
StripClosersFrom(tokens, i, level, remove_naked_comma) ==
  IF i > Len(tokens) THEN tokens
  ELSE LET s == tokens[i].string
           lvl == IF InOpeners(s) THEN level + 1
                  ELSE IF InClosers(s) THEN level - 1 ELSE level
       IN IF lvl = 0 /\ s = "," /\ remove_naked_comma THEN SubSeq(tokens, 1, i - 1)
          ELSE IF lvl < 0 THEN SubSeq(tokens, 1, i - 1)
          ELSE StripClosersFrom(tokens, i + 1, lvl, remove_naked_comma)

_strip_trailing_extra_closers(tokens, remove_naked_comma) ==
  StripClosersFrom(tokens, 1, 0, remove_naked_comma)

RECURSIVE StripUnclosedFrom(_, _, _)
StripUnclosedFrom(tokens, i, level) ==
  IF i < 1 THEN tokens
  ELSE LET s == tokens[i].string
           lvl == IF InOpeners(s) THEN level - 1
                  ELSE IF InClosers(s) THEN level + 1 ELSE level
       IN IF lvl < 0 THEN StripUnclosedFrom(SubSeq(tokens, 1, i - 1), i - 1, 0)
          ELSE StripUnclosedFrom(tokens, i - 1, lvl)

_strip_unclosed_brackets(tokens) == StripUnclosedFrom(tokens, Len(tokens), 0)

StmtTrailers == {":", "else", "elif", "finally", "except"}

RECURSIVE StripStatementTail(_)
StripStatementTail(tokens) ==
  IF tokens = <<>> THEN [raised |-> TRUE, tokens |-> tokens]
  ELSE IF \/ Last(tokens).type \in {"NL", "COMMENT", "NEWLINE", "INDENT"}
          \/ Last(tokens).string \in StmtTrailers
       THEN StripStatementTail(AllButLast(tokens))
       ELSE [raised |-> FALSE, tokens |-> tokens]

\* lines 279-288: the window trimmed to the node's own tokens
TrimWindow(n, tokens) ==
  IF Node(n).base = "stmt" THEN StripStatementTail(tokens)
  ELSE LET a == _strip_trailing_extra_closers(tokens, Node(n).kind # "Tuple")
           b == _strip_trailing_junk_from_expressions(a)
       IN IF b.raised THEN b
          ELSE [raised |-> FALSE, tokens |-> _strip_unclosed_brackets(b.tokens)]

\* lines 296-299: a call with no argument of any kind
IsBareCall(n) ==
  /\ Node(n).kind = "Call"
  /\ Field(n, "args") = <<>>
  /\ Field(n, "keywords") = <<>>
  /\ Field(n, "starargs") = <<>>
  /\ Field(n, "kwargs") = <<>>

\* lines 294-307: the list left for the children
PeelWindow(n, tokens) ==
  IF IsBareCall(n)
  THEN IF Last(tokens).string # ")" THEN [raised |-> TRUE, tokens |-> tokens]
       ELSE _strip_trailing_junk_from_expressions(AllButLast(tokens))
  ELSE IF Node(n).kind = "Attribute"
  THEN IF Last(tokens).type # "NAME" THEN [raised |-> TRUE, tokens |-> tokens]
       ELSE _strip_trailing_junk_from_expressions(AllButLast(tokens))
  ELSE [raised |-> FALSE, tokens |-> tokens]

\* _set_real_end: whether it raised, the list it leaves, and the end it assigned
\* (meaningful where it did not raise; the caller overwrites it where it did)
_set_real_end(n, tokens) ==
  LET t == TrimWindow(n, tokens)
  IN IF t.raised \/ t.tokens = <<>>
     THEN [raised |-> TRUE, tokens |-> t.tokens, end |-> <<0, 0>>]
     ELSE LET p == PeelWindow(n, t.tokens)
          IN [raised |-> p.raised, tokens |-> p.tokens, end |-> Last(t.tokens).end]

(***************************************************************************)
(* fix_ast_problems: the start positions, corrected bottom-up.             *)
(***************************************************************************)
\* UTF-8 length of a character of the samples ("<e9>" stands for U+00E9, ...)
Utf8Len(ch) ==
  IF ch \in {"<e9>", "<fc>"} THEN 2 ELSE IF ch = "<20ac>" THEN 3 ELSE 1

RECURSIVE ByteLen(_)
ByteLen(line) == IF line = <<>> THEN 0 ELSE Utf8Len(Head(line)) + ByteLen(Tail(line))

\* source.splitlines(True), line 318
source_lines == sample.source

\* len(byte_line[:col].decode("UTF-8")): the slice end as Python clamps it, then the
\* characters that end at or before it; -1 where the slice ends inside a character
\* (UnicodeDecodeError)
DecodedLen(line, col) ==
  LET blen == ByteLen(line)
      k == IF col < 0 THEN (IF blen + col < 0 THEN 0 ELSE blen + col)
           ELSE (IF col > blen THEN blen ELSE col)
      ends == {i \in 0 .. Len(line) : ByteLen(SubSeq(line, 1, i)) = k}
  IN IF ends = {} THEN -1 ELSE CHOOSE i \in ends : TRUE

\* compare_node_positions that looks at the lines only
compare_node_lines(n1, n2) ==
  IF lineno[n1] > lineno[n2] THEN 1
  ELSE IF lineno[n1] < lineno[n2] THEN -1
  ELSE 0

compare_node_positions(n1, n2) ==
  IF lineno[n1] > lineno[n2] THEN 1
  ELSE IF lineno[n1] < lineno[n2] THEN -1
  ELSE IF col_offset[n1] > col_offset[n2] THEN 1
  ELSE IF col_offset[n2] < col_offset[n2] THEN -1
  ELSE 0

\* insertion of x after the elements of the sorted s whose key is not greater:
\* list.sort is stable
RECURSIVE InsertByStart(_, _)
InsertByStart(s, x) ==
  IF s = <<>> THEN <<x>>
  ELSE IF PosLess(<<lineno[x], col_offset[x]>>, <<lineno[Head(s)], col_offset[Head(s)]>>)
       THEN <<x>> \o s
       ELSE <<Head(s)>> \o InsertByStart(Tail(s), x)

RECURSIVE SortByStart(_)
SortByStart(s) ==
  IF s = <<>> THEN <<>> ELSE InsertByStart(SortByStart(AllButLast(s)), Last(s))

\* _get_ordered_child_nodes with the keywords of a call left out
ordered_child_nodes_without_keywords(n) ==
  IF Node(n).kind = "Dict"
  THEN Flatten([i \in 1 .. Len(Field(n, "keys")) |->
                  <<Field(n, "keys")[i], Field(n, "values")[i]>>])
  ELSE IF Node(n).kind = "Call"
  THEN SortByStart(Field(n, "func") \o Field(n, "args")
                   \o Field(n, "starargs") \o Field(n, "kwargs"))
  ELSE iter_child_nodes(n)

_get_ordered_child_nodes(n) ==
  IF Node(n).kind = "Dict"
  THEN Flatten([i \in 1 .. Len(Field(n, "keys")) |->
                  <<Field(n, "keys")[i], Field(n, "values")[i]>>])
  ELSE IF Node(n).kind = "Call"
  THEN SortByStart(Field(n, "func") \o Field(n, "args")
                   \o Flatten([i \in 1 .. Len(Field(n, "keywords")) |->
                                 Field(Field(n, "keywords")[i], "value")])
                   \o Field(n, "starargs") \o Field(n, "kwargs"))
  ELSE iter_child_nodes(n)

\* the node a single-valued field holds
Child(n, name) == Field(n, name)[1]

\* lines 408-454: what fix_node does to the node after its children:
\* the start it assigns, and whether it raises instead
fix_node_start(n) ==
  LET kind == Node(n).kind
      same == [raised |-> FALSE, lineno |-> lineno[n], col_offset |-> col_offset[n]]
      from(m) == [raised |-> FALSE, lineno |-> lineno[m], col_offset |-> col_offset[m]]
  IN IF kind = "Str"
     THEN IF string_tokens = <<>> THEN [raised |-> TRUE, lineno |-> 0, col_offset |-> 0]
          ELSE [raised |-> FALSE, lineno |-> Head(string_tokens).start[1],
                col_offset |-> Head(string_tokens).start[2]]
     ELSE IF kind \in {"Expr", "Attribute"} /\ Node(Child(n, "value")).kind = "Str"
     THEN from(Child(n, "value"))
     ELSE IF kind = "BinOp" /\ compare_node_positions(n, Child(n, "left")) > 0
     THEN from(Child(n, "left"))
     ELSE IF kind = "Call" /\ compare_node_positions(n, Child(n, "func")) > 0
     THEN from(Child(n, "func"))
     ELSE IF kind = "Attribute" /\ compare_node_positions(n, Child(n, "value")) > 0
     THEN from(Child(n, "value"))
     ELSE IF kind = "Subscript" /\ compare_node_positions(n, Child(n, "value")) > 0
     THEN from(Child(n, "value"))
     ELSE IF Node(n).positioned
     THEN LET d == DecodedLen(source_lines[lineno[n]], col_offset[n])
          IN [raised |-> d < 0, lineno |-> lineno[n], col_offset |-> d]
     ELSE same

(***************************************************************************)
(* extract_text_range and tokenize_with_char_offsets.                      *)
(***************************************************************************)
\* s[i:j] of Python, for a list or a string
PySlice(s, i, j) ==
  LET clamp(k) == IF k < 0 THEN (IF Len(s) + k < 0 THEN 0 ELSE Len(s) + k)
                  ELSE (IF k > Len(s) THEN Len(s) ELSE k)
  IN SubSeq(s, clamp(i) + 1, clamp(j))

NewlineAt(s) == {i \in 1 .. Len(s) : s[i] = "\n"}
FirstNewline(s) == CHOOSE i \in NewlineAt(s) : \A j \in NewlineAt(s) : i <= j

\* source.splitlines(True), for sources whose only line boundary is "\n"
RECURSIVE splitlines(_)
splitlines(s) ==
  IF s = <<>> THEN <<>>
  ELSE IF NewlineAt(s) = {} THEN <<s>>
  ELSE <<SubSeq(s, 1, FirstNewline(s))>> \o splitlines(SubSeq(s, FirstNewline(s) + 1, Len(s)))

\* source.split("\n")
RECURSIVE split_newline(_)
split_newline(s) ==
  IF NewlineAt(s) = {} THEN <<s>>
  ELSE <<SubSeq(s, 1, FirstNewline(s) - 1)>>
       \o split_newline(SubSeq(s, FirstNewline(s) + 1, Len(s)))

\* extract_text_range with the first line cut before the last
extract_first_line_first(source, text_range) ==
  LET all == splitlines(source)
      lines == PySlice(all, text_range[1] - 1, text_range[3])
  IN IF lines = <<>> THEN [raised |-> TRUE, text |-> <<>>]
     ELSE LET cut == [lines EXCEPT ![1] = PySlice(@, text_range[2], Len(@))]
              both == [cut EXCEPT ![Len(lines)] = PySlice(@, 0, text_range[4])]
          IN [raised |-> FALSE, text |-> Flatten(both)]

\* lines 23-31; raised where lines[-1] of an empty list raises IndexError
extract_text_range(source, text_range) ==
  LET all == splitlines(source)
      lines == PySlice(all, text_range[1] - 1, text_range[3])
  IN IF lines = <<>> THEN [raised |-> TRUE, text |-> <<>>]
     ELSE LET cut == [lines EXCEPT ![Len(lines)] = PySlice(@, 0, text_range[4])]
              both == [cut EXCEPT ![1] = PySlice(@, text_range[2], Len(@))]
          IN [raised |-> FALSE, text |-> Flatten(both)]

\* line 334: char_lines
char_lines(source) ==
  LET parts == split_newline(source)
  IN [i \in 1 .. Len(parts) |-> parts[i] \o <<"\n">>]

\* the source of the sample as one string
SourceText == Flatten(sample.source)

\* lines 329-331: the raw tokens
token_source == sample.tokens

\* line 347: the token is copied as it is
IsCopied(tok) == tok.start[1] = 0 \/ (tok.start[2] = 0 /\ tok.end[2] = 0)

\* lines 356-360: the columns decoded from the token's lines; -1 for a column where
\* the decoding raises
TranslatedCols(tok) ==
  LET lines == char_lines(SourceText)
  IN <<DecodedLen(lines[tok.start[1]], tok.start[2]),
       DecodedLen(lines[tok.end[1]], tok.end[2])>>

Thoken(type, string, l, c, el, ec) ==
  [type |-> type, string |-> string, lineno |-> l, col_offset |-> c,
   end_lineno |-> el, end_col_offset |-> ec]

(***************************************************************************)
(* mark_text_ranges, step by step.                                         *)
(***************************************************************************)
\* no call of tokenize_with_char_offsets, none of extract_text_range
TkIdle == [pc |-> "idle", i |-> 0, encoded |-> FALSE, thokens |-> <<>>,
           returned_none |-> FALSE, returned |-> <<>>]
XtIdle == [pc |-> "idle", source |-> <<>>, range |-> <<0, 0, 0, 0>>, raised |-> FALSE,
           text |-> <<>>]

NoAnswer == [op |-> "none", tree |-> NoNode, range |-> <<0, 0, 0, 0>>, target |-> NoNode,
             kind |-> "", result |-> NoNode, found |-> FALSE]

\* no sweep of the tree completed
NoSweeps == [count |-> 0, ends |-> <<>>]

MainIdle ==
  /\ phase = "entry"
  /\ all_tokens = <<>>
  /\ string_tokens = <<>>
  /\ lineno = [n \in Nodes |-> Node(n).lineno]
  /\ col_offset = [n \in Nodes |-> Node(n).col_offset]
  /\ end_lineno = [n \in Nodes |-> 0]
  /\ end_col_offset = [n \in Nodes |-> 0]
  /\ marked = {}
  /\ fix_stack = <<>>
  /\ stack = <<>>
  /\ prelim = <<0, 0>>
  /\ answer = NoAnswer
  /\ sweeps = NoSweeps

Init ==
  /\ sample \in {Samples[i] : i \in 1 .. Len(Samples)}
  /\ MainIdle
  /\ tk = TkIdle
  /\ xt = XtIdle

\* lines 317-319 and 389-394, 457: tokenize, and enter fix_node(tree)
Tokenize ==
  /\ phase = "entry"
  /\ phase' = "fix"
  /\ all_tokens' = sample.tokens
  /\ string_tokens' = SelectSeq(sample.tokens, LAMBDA tok : tok.type = "STRING")
  /\ fix_stack' = <<[node |-> Root, todo |-> _get_ordered_child_nodes(Root)]>>
  /\ UNCHANGED <<sweeps, tk, xt, sample, lineno, col_offset, end_lineno, end_col_offset, marked, stack,
                 prelim, answer>>

\* lines 404-406: fix_node(child) for the next child
FixDescend ==
  /\ phase = "fix"
  /\ fix_stack # <<>>
  /\ Last(fix_stack).todo # <<>>
  /\ LET top == Last(fix_stack)
         child == Head(top.todo)
     IN fix_stack' = AllButLast(fix_stack)
                       \o <<[node |-> top.node, todo |-> Tail(top.todo)],
                            [node |-> child, todo |-> _get_ordered_child_nodes(child)]>>
  /\ UNCHANGED <<sweeps, tk, xt, sample, phase, all_tokens, string_tokens, lineno, col_offset, end_lineno,
                 end_col_offset, marked, stack, prelim, answer>>

\* lines 408-454: the node itself, its children done; an exception leaves
\* mark_text_ranges
FixNode ==
  /\ phase = "fix"
  /\ fix_stack # <<>>
  /\ Last(fix_stack).todo = <<>>
  /\ LET n == Last(fix_stack).node
         r == fix_node_start(n)
     IN IF r.raised
        THEN /\ phase' = "raised"
             /\ UNCHANGED <<lineno, col_offset, fix_stack, string_tokens>>
        ELSE /\ lineno' = [lineno EXCEPT ![n] = r.lineno]
             /\ col_offset' = [col_offset EXCEPT ![n] = r.col_offset]
             /\ string_tokens' = IF Node(n).kind = "Str" THEN Tail(string_tokens)
                                 ELSE string_tokens
             /\ fix_stack' = AllButLast(fix_stack)
             /\ phase' = phase
  /\ UNCHANGED <<sweeps, tk, xt, sample, all_tokens, end_lineno, end_col_offset, marked, stack, prelim,
                 answer>>

\* lines 320-321: the horizon of the whole tree is the end of the source
SetHorizon ==
  /\ phase = "fix"
  /\ fix_stack = <<>>
  /\ IF source_lines = <<>>
     THEN phase' = "raised" /\ prelim' = prelim
     ELSE phase' = "sweep" /\ prelim' = <<Len(source_lines), Len(Last(source_lines))>>
  /\ UNCHANGED <<sweeps, tk, xt, sample, all_tokens, string_tokens, lineno, col_offset, end_lineno,
                 end_col_offset, marked, fix_stack, stack, answer>>

\* the call of _mark_text_ranges_rec about to be made: of the root (line 322), or
\* of the next child in reversed(children) (lines 213-215)
CallPending ==
  /\ phase = "sweep"
  /\ stack # <<>> => Last(stack).todo # <<>>

Callee == IF stack = <<>> THEN Root ELSE Head(Last(stack).todo)

\* the token list the callee receives
PassedTokens == IF stack = <<>> THEN all_tokens ELSE Last(stack).tokens

\* _extract_tokens filtering the list it is given in place
FiltersInPlace == FALSE

\* line 183: list(filter(...)) builds a new list, so what _set_real_end deletes
\* (del tokens[-1], del tokens[i:]) is deleted from the window, not from the list
\* the window was extracted from
ExtractsNewList == TRUE

\* the full token list after _set_real_end has trimmed the window to trimmed
AllTokensAfter(trimmed) == IF ExtractsNewList THEN all_tokens ELSE trimmed

\* line 200: the callee's window
Window(n) ==
  _extract_tokens(PassedTokens, lineno[n], col_offset[n], prelim[1], prelim[2])

\* the caller's frame with the call consumed, and the callee's frame above it
Pushed(n, tokens) ==
  (IF stack = <<>> THEN <<>>
   ELSE AllButLast(stack) \o <<[Last(stack) EXCEPT !.todo = Tail(@)]>>)
  \o <<[node |-> n, tokens |-> tokens, todo |-> Reverse(_get_ordered_child_nodes(n))]>>

\* lines 199-202, 212: a positioned node whose end _set_real_end computes
MarkSetEnd ==
  /\ CallPending
  /\ Node(Callee).positioned
  /\ LET n == Callee
         r == _set_real_end(n, Window(n))
     IN /\ ~r.raised
        /\ end_lineno' = [end_lineno EXCEPT ![n] = r.end[1]]
        /\ end_col_offset' = [end_col_offset EXCEPT ![n] = r.end[2]]
        /\ marked' = marked \cup {n}
        /\ stack' = Pushed(n, r.tokens)
        /\ all_tokens' = AllTokensAfter(r.tokens)
  /\ UNCHANGED <<sweeps, tk, xt, sample, phase, string_tokens, lineno, col_offset, fix_stack,
                 prelim, answer>>

\* the fallback adding one character to the end the node carries, not to its start
MarkFallbackFromEnd ==
  /\ CallPending
  /\ Node(Callee).positioned
  /\ LET n == Callee
         r == _set_real_end(n, Window(n))
     IN /\ r.raised
        /\ end_lineno' = [end_lineno EXCEPT ![n] = lineno[n]]
        /\ end_col_offset' = [end_col_offset EXCEPT ![n] = end_col_offset[n] + 1]
        /\ marked' = marked \cup {n}
        /\ stack' = Pushed(n, r.tokens)
  /\ UNCHANGED <<sweeps, tk, xt, sample, phase, all_tokens, string_tokens, lineno, col_offset,
                 fix_stack, prelim, answer>>

\* the fallback taking the one character it assigned as the horizon of the children
MarkFallbackNarrowsHorizon ==
  /\ CallPending
  /\ Node(Callee).positioned
  /\ LET n == Callee
         r == _set_real_end(n, Window(n))
     IN /\ r.raised
        /\ end_lineno' = [end_lineno EXCEPT ![n] = lineno[n]]
        /\ end_col_offset' = [end_col_offset EXCEPT ![n] = col_offset[n] + 1]
        /\ marked' = marked \cup {n}
        /\ stack' = Pushed(n, r.tokens)
        /\ all_tokens' = AllTokensAfter(r.tokens)
        /\ prelim' = <<lineno[n], col_offset[n] + 1>>
  /\ UNCHANGED <<sweeps, tk, xt, sample, phase, string_tokens, lineno, col_offset, fix_stack,
                 answer>>

\* lines 203-207, 212: _set_real_end raised; the node gets one character
MarkFallback ==
  /\ CallPending
  /\ Node(Callee).positioned
  /\ LET n == Callee
         r == _set_real_end(n, Window(n))
     IN /\ r.raised
        /\ end_lineno' = [end_lineno EXCEPT ![n] = lineno[n]]
        /\ end_col_offset' = [end_col_offset EXCEPT ![n] = col_offset[n] + 1]
        /\ marked' = marked \cup {n}
        /\ stack' = Pushed(n, r.tokens)
        /\ all_tokens' = AllTokensAfter(r.tokens)
  /\ UNCHANGED <<sweeps, tk, xt, sample, phase, string_tokens, lineno, col_offset, fix_stack,
                 prelim, answer>>

\* lines 199, 212: a node without lineno and col_offset passes its tokens on
MarkPass ==
  /\ CallPending
  /\ ~Node(Callee).positioned
  /\ stack' = Pushed(Callee, PassedTokens)
  /\ UNCHANGED <<sweeps, tk, xt, sample, phase, all_tokens, string_tokens, lineno, col_offset, end_lineno,
                 end_col_offset, marked, fix_stack, prelim, answer>>

\* lines 217-222: the call returns the new front; line 322: the root's call ends
\* mark_text_ranges
MarkReturn ==
  /\ phase = "sweep"
  /\ stack # <<>>
  /\ Last(stack).todo = <<>>
  /\ LET n == Last(stack).node
     IN prelim' = IF Node(n).positioned THEN <<lineno[n], col_offset[n]>> ELSE prelim
  /\ stack' = AllButLast(stack)
  /\ phase' = IF Len(stack) = 1 THEN "done" ELSE phase
  /\ sweeps' = IF Len(stack) > 1 THEN sweeps
               ELSE [count |-> sweeps.count + 1,
                     ends |-> IF sweeps.count = 0 THEN <<end_lineno, end_col_offset>>
                              ELSE sweeps.ends]
  /\ UNCHANGED <<tk, xt, sample, all_tokens, string_tokens, lineno, col_offset, end_lineno,
                 end_col_offset, marked, fix_stack, answer>>

MaxSweeps == 2

\* line 322 once more: _mark_text_ranges_rec on the same tree, with the same tokens
\* and the same horizon
Resweep ==
  /\ phase = "done"
  /\ answer = NoAnswer /\ xt = XtIdle
  /\ sweeps.count < MaxSweeps
  /\ phase' = "sweep"
  /\ stack' = <<>>
  /\ prelim' = <<Len(source_lines), Len(Last(source_lines))>>
  /\ UNCHANGED <<sweeps, tk, xt, sample, all_tokens, string_tokens, lineno, col_offset,
                 end_lineno, end_col_offset, marked, fix_stack, answer>>

(***************************************************************************)
(* The queries of the ranged tree.                                         *)
(***************************************************************************)
\* a text range is <<lineno, col_offset, end_lineno, end_col_offset>>
RangeStart(r) == <<r[1], r[2]>>
RangeEnd(r) == <<r[3], r[4]>>

\* thonny.common.TextRange.contains_smaller_eq
contains_smaller_eq(a, b) ==
  PosLeq(RangeStart(a), RangeStart(b)) /\ PosLeq(RangeEnd(b), RangeEnd(a))

RangeOf(n) == <<lineno[n], col_offset[n], end_lineno[n], end_col_offset[n]>>

RECURSIVE find_closest_containing_node(_, _)
RECURSIVE FirstClosestAmong(_, _)
find_closest_containing_node(tree, text_range) ==
  LET result == FirstClosestAmong(iter_child_nodes(tree), text_range)
  IN IF result # NoNode THEN result
     ELSE IF Node(tree).positioned /\ contains_smaller_eq(RangeOf(tree), text_range)
     THEN tree
     ELSE NoNode

\* lines 36-39: the first child whose search succeeds
FirstClosestAmong(children, text_range) ==
  IF children = <<>> THEN NoNode
  ELSE LET result == find_closest_containing_node(Head(children), text_range)
       IN IF result # NoNode THEN result
          ELSE FirstClosestAmong(Tail(children), text_range)

RECURSIVE find_expression(_, _)
RECURSIVE FirstExpressionAmong(_, _)
\* find_expression without the test of the node's kind
find_node_with_range(node, text_range) ==
  IF /\ Node(node).positioned
     /\ lineno[node] = text_range[1] /\ col_offset[node] = text_range[2]
     /\ end_lineno[node] = text_range[3] /\ end_col_offset[node] = text_range[4]
  THEN node
  ELSE FirstExpressionAmong(iter_child_nodes(node), text_range)

find_expression(node, text_range) ==
  IF /\ Node(node).positioned
     /\ lineno[node] = text_range[1] /\ col_offset[node] = text_range[2]
     /\ end_lineno[node] = text_range[3] /\ end_col_offset[node] = text_range[4]
     /\ Node(node).base = "expr"
  THEN node
  ELSE FirstExpressionAmong(iter_child_nodes(node), text_range)

\* lines 58-62
FirstExpressionAmong(children, text_range) ==
  IF children = <<>> THEN NoNode
  ELSE LET result == find_expression(Head(children), text_range)
       IN IF result # NoNode THEN result
          ELSE FirstExpressionAmong(Tail(children), text_range)

\* nodes compared by their ranges
SameRange(a, b) == RangeOf(a) = RangeOf(b)

\* child == child_node compares objects: the nodes define no __eq__
SameNode(a, b) == a = b

RECURSIVE contains_node(_, _)
contains_node(parent_node, child_node) ==
  \E i \in 1 .. Len(iter_child_nodes(parent_node)) :
     LET child == iter_child_nodes(parent_node)[i]
     IN SameNode(child, child_node) \/ contains_node(child, child_node)

\* ast.walk(tree): the nodes reachable from tree, tree included
RECURSIVE WalkFrom(_, _)
WalkFrom(frontier, seen) ==
  IF frontier = {} THEN seen
  ELSE LET next == UNION {{iter_child_nodes(n)[i] : i \in 1 .. Len(iter_child_nodes(n))} :
                          n \in frontier}
       IN WalkFrom(next \ (seen \cup frontier), seen \cup frontier)

walk(tree) == WalkFrom({tree}, {})

\* isinstance(node, cls) for a node class or one of the bases stmt and expr
isinstance(n, cls) == Node(n).kind = cls \/ Node(n).base = cls

has_parent_with_class(target_node, parent_class, tree) ==
  \E node \in walk(tree) :
     isinstance(node, parent_class) /\ contains_node(node, target_node)

\* A query is a call by a client of the ranged tree; the queries change nothing, so
\* one query per run covers them all.
QueryPending == phase = "done" /\ answer = NoAnswer /\ xt = XtIdle

\* the ranges asked about: those of the tree's nodes and of the source's tokens
QueryRanges ==
  {RangeOf(n) : n \in {m \in Nodes : Node(m).positioned}}
  \cup {<<all_tokens[i].start[1], all_tokens[i].start[2],
          all_tokens[i].end[1], all_tokens[i].end[2]>> : i \in 1 .. Len(all_tokens)}

QueryClasses == {Node(n).kind : n \in Nodes} \cup {"stmt", "expr"}

AskClosest ==
  /\ QueryPending
  /\ \E tree \in Nodes, r \in QueryRanges :
       answer' = [op |-> "find_closest_containing_node", tree |-> tree, range |-> r,
                  target |-> NoNode, kind |-> "",
                  result |-> find_closest_containing_node(tree, r), found |-> FALSE]
  /\ UNCHANGED <<sweeps, tk, xt, sample, phase, all_tokens, string_tokens, lineno, col_offset, end_lineno,
                 end_col_offset, marked, fix_stack, stack, prelim>>

AskExpression ==
  /\ QueryPending
  /\ \E tree \in Nodes, r \in QueryRanges :
       answer' = [op |-> "find_expression", tree |-> tree, range |-> r,
                  target |-> NoNode, kind |-> "",
                  result |-> find_expression(tree, r), found |-> FALSE]
  /\ UNCHANGED <<sweeps, tk, xt, sample, phase, all_tokens, string_tokens, lineno, col_offset, end_lineno,
                 end_col_offset, marked, fix_stack, stack, prelim>>

AskParent ==
  /\ QueryPending
  /\ \E tree \in Nodes, target \in Nodes, cls \in QueryClasses :
       answer' = [op |-> "has_parent_with_class", tree |-> tree, range |-> <<0, 0, 0, 0>>,
                  target |-> target, kind |-> cls,
                  result |-> NoNode, found |-> has_parent_with_class(target, cls, tree)]
  /\ UNCHANGED <<sweeps, tk, xt, sample, phase, all_tokens, string_tokens, lineno, col_offset, end_lineno,
                 end_col_offset, marked, fix_stack, stack, prelim>>

\* compare_node_positions(n1, n2) of two positioned nodes of the tree
AskCompare ==
  /\ QueryPending
  /\ \E n1, n2 \in {m \in Nodes : Node(m).positioned} :
       answer' = [op |-> "compare_node_positions", tree |-> n1, range |-> <<0, 0, 0, 0>>,
                  target |-> n2, kind |-> "",
                  result |-> compare_node_positions(n1, n2), found |-> FALSE]
  /\ UNCHANGED <<sweeps, tk, xt, sample, phase, all_tokens, string_tokens, lineno, col_offset, end_lineno,
                 end_col_offset, marked, fix_stack, stack, prelim>>

\* extract_text_range(source, range of a node of the ranged tree)
AskText ==
  /\ QueryPending
  /\ \E n \in {m \in Nodes : Node(m).positioned} :
       LET r == extract_text_range(SourceText, RangeOf(n))
       IN xt' = [pc |-> "returned", source |-> SourceText, range |-> RangeOf(n),
                 raised |-> r.raised, text |-> r.text]
  /\ UNCHANGED <<sweeps, tk, sample, phase, all_tokens, string_tokens, lineno, col_offset, end_lineno,
                 end_col_offset, marked, fix_stack, stack, prelim, answer>>

Next ==
  \/ Tokenize
  \/ FixDescend
  \/ FixNode
  \/ SetHorizon
  \/ MarkSetEnd
  \/ MarkFallback
  \/ MarkPass
  \/ MarkReturn
  \/ Resweep
  \/ AskClosest
  \/ AskExpression
  \/ AskParent
  \/ AskCompare
  \/ AskText

Spec == Init /\ [][Next]_vars

(***************************************************************************)
(* extract_text_range(source, text_range), called on a source and a range  *)
(* that lies inside it.                                                    *)
(***************************************************************************)
MaxSourceLen == 4
Alphabet == {"a", "b", "\n"}
Sources == UNION {[1 .. k -> Alphabet] : k \in 0 .. MaxSourceLen}

\* Lines and columns read off the text itself: line l starts after the (l-1)th
\* newline.
NewlinesIn(s, k) == Cardinality({i \in 1 .. k : s[i] = "\n"})
LineCount(s) ==
  NewlinesIn(s, Len(s)) + (IF s # <<>> /\ s[Len(s)] # "\n" THEN 1 ELSE 0)
LineStart(s, l) ==
  CHOOSE k \in 0 .. Len(s) : NewlinesIn(s, k) = l - 1 /\ (k = 0 \/ s[k] = "\n")
LineLength(s, l) ==
  (IF l < LineCount(s) THEN LineStart(s, l + 1) ELSE Len(s)) - LineStart(s, l)

\* the ranges with start <= end that lie inside the source
RangesInside(s) ==
  {r \in (1 .. LineCount(s)) \X (0 .. Len(s)) \X (1 .. LineCount(s)) \X (0 .. Len(s)) :
     /\ r[2] <= LineLength(s, r[1])
     /\ r[4] <= LineLength(s, r[3])
     /\ PosLeq(RangeStart(r), RangeEnd(r))}

InitExtract ==
  /\ sample = Samples[1]
  /\ MainIdle
  /\ tk = TkIdle
  /\ \E s \in Sources : \E r \in RangesInside(s) :
       xt = [pc |-> "called", source |-> s, range |-> r, raised |-> FALSE, text |-> <<>>]

Extract ==
  /\ xt.pc = "called"
  /\ LET r == extract_text_range(xt.source, xt.range)
     IN xt' = [xt EXCEPT !.pc = "returned", !.raised = r.raised, !.text = r.text]
  /\ UNCHANGED <<sweeps, tk, sample, phase, all_tokens, string_tokens, lineno, col_offset,
                 end_lineno, end_col_offset, marked, fix_stack, stack, prelim, answer>>

SpecExtract == InitExtract /\ [][Extract]_vars

(***************************************************************************)
(* tokenize_with_char_offsets(source), token by token.                     *)
(***************************************************************************)
InitTokenize ==
  /\ sample \in {Samples[i] : i \in 1 .. Len(Samples)}
  /\ MainIdle
  /\ xt = XtIdle
  /\ tk = [pc |-> "loop", i |-> 0, encoded |-> FALSE, thokens |-> <<>>,
           returned_none |-> FALSE, returned |-> <<>>]

TkNext == token_source[tk.i + 1]
\* lines 341-344: the ENCODING token sets byte_lines
TkEncoded == tk.encoded \/ TkNext.type = "ENCODING"

\* lines 347-351, 366
TkCopy ==
  /\ tk.pc = "loop"
  /\ tk.i < Len(token_source)
  /\ IsCopied(TkNext)
  /\ tk' = [tk EXCEPT !.i = @ + 1, !.encoded = TkEncoded,
                      !.thokens = Append(@, Thoken(TkNext.type, TkNext.string,
                                                   TkNext.start[1], TkNext.start[2],
                                                   TkNext.end[1], TkNext.end[2]))]
  /\ UNCHANGED <<sweeps, xt, sample, phase, all_tokens, string_tokens, lineno, col_offset,
                 end_lineno, end_col_offset, marked, fix_stack, stack, prelim, answer>>

\* lines 352-366
TkTranslate ==
  /\ tk.pc = "loop"
  /\ tk.i < Len(token_source)
  /\ ~IsCopied(TkNext)
  /\ TkEncoded
  /\ TranslatedCols(TkNext)[1] >= 0 /\ TranslatedCols(TkNext)[2] >= 0
  /\ tk' = [tk EXCEPT !.i = @ + 1, !.encoded = TkEncoded,
                      !.thokens = Append(@, Thoken(TkNext.type, TkNext.string,
                                                   TkNext.start[1], TranslatedCols(TkNext)[1],
                                                   TkNext.end[1], TranslatedCols(TkNext)[2]))]
  /\ UNCHANGED <<sweeps, xt, sample, phase, all_tokens, string_tokens, lineno, col_offset,
                 end_lineno, end_col_offset, marked, fix_stack, stack, prelim, answer>>

\* lines 356-360: byte_lines is None, or a column lies inside a character
TkRaise ==
  /\ tk.pc = "loop"
  /\ tk.i < Len(token_source)
  /\ ~IsCopied(TkNext)
  /\ ~TkEncoded \/ TranslatedCols(TkNext)[1] < 0 \/ TranslatedCols(TkNext)[2] < 0
  /\ tk' = [tk EXCEPT !.pc = "raised"]
  /\ UNCHANGED <<sweeps, xt, sample, phase, all_tokens, string_tokens, lineno, col_offset,
                 end_lineno, end_col_offset, marked, fix_stack, stack, prelim, answer>>

\* line 366 is the function's last statement: it returns None
TkReturn ==
  /\ tk.pc = "loop"
  /\ tk.i = Len(token_source)
  /\ tk' = [tk EXCEPT !.pc = "returned", !.returned_none = TRUE, !.returned = <<>>]
  /\ UNCHANGED <<sweeps, xt, sample, phase, all_tokens, string_tokens, lineno, col_offset,
                 end_lineno, end_col_offset, marked, fix_stack, stack, prelim, answer>>

NextTokenize == TkCopy \/ TkTranslate \/ TkRaise \/ TkReturn

SpecTokenize == InitTokenize /\ [][NextTokenize]_vars

(***************************************************************************)
(* Properties.                                                             *)
(***************************************************************************)
Positioned == {n \in Nodes : Node(n).positioned}
ChildSet(n) == {iter_child_nodes(n)[i] : i \in 1 .. Len(iter_child_nodes(n))}
StartOf(n) == <<lineno[n], col_offset[n]>>
EndOf(n) == <<end_lineno[n], end_col_offset[n]>>

\* the positioned nodes directly below p: its children, and what lies below an
\* unpositioned child (arguments, keyword, Index)
RECURSIVE PositionedBelow(_)
PositionedBelow(p) ==
  UNION {IF Node(c).positioned THEN {c} ELSE PositionedBelow(c) : c \in ChildSet(p)}

\* C1: after mark_text_ranges, every positioned child lies within its positioned
\* parent: parent.start <= child.start and child.end <= parent.end.
C1_ChildWithinParent ==
  phase = "done" =>
    \A p \in Positioned : \A c \in PositionedBelow(p) :
       PosLeq(StartOf(p), StartOf(c)) /\ PosLeq(EndOf(c), EndOf(p))

\* C2: after mark_text_ranges, of two positioned children of one node the one that
\* starts earlier ends at or before the start of the other.
C2_SiblingsDisjoint ==
  phase = "done" =>
    \A p \in Nodes : \A a, b \in ChildSet(p) \cap Positioned :
       PosLess(StartOf(a), StartOf(b)) => PosLeq(EndOf(a), StartOf(b))

\* C3: after mark_text_ranges, every positioned node's end is not before its start,
\* whether the end came from the trimmed window or from the fallback.
C3_EndNotBeforeStart ==
  phase = "done" => \A n \in marked : PosLeq(StartOf(n), EndOf(n))

\* no token ends where the node ends: the end is the fallback's
EndedByFallback(n) == \A i \in 1 .. Len(all_tokens) : all_tokens[i].end # EndOf(n)

C3_Witness ==
  /\ phase = "done"
  /\ \E n \in marked : EndedByFallback(n) /\ EndOf(n) = <<lineno[n], col_offset[n] + 1>>
  /\ \E n \in marked : ~EndedByFallback(n) /\ PosLess(StartOf(n), EndOf(n))

\* C4: when mark_text_ranges returns, every node of the tree that carries lineno
\* and col_offset carries end_lineno and end_col_offset.
C4_EveryPositionedNodeMarked ==
  phase = "done" => \A n \in walk(Root) : Node(n).positioned => n \in marked

\* a call's keyword argument whose value, and what is below it, got its end
C4_Witness ==
  /\ phase = "done"
  /\ \E k \in Nodes : /\ Node(k).kind = "keyword"
                      /\ walk(Child(k, "value")) \cap Positioned # {}
                      /\ walk(Child(k, "value")) \cap Positioned \subseteq marked

\* fix_node is about to take a string token for a Str node and none is left
StrTokenMissing ==
  /\ phase = "fix"
  /\ fix_stack # <<>>
  /\ Last(fix_stack).todo = <<>>
  /\ Node(Last(fix_stack).node).kind = "Str"
  /\ string_tokens = <<>>

\* the sweep is about to process a positioned node whose window is empty or
\* is emptied by the trimming
WindowFails ==
  /\ CallPending
  /\ Node(Callee).positioned
  /\ _set_real_end(Callee, Window(Callee)).raised

\* C5: a tree/token inconsistency (no string token left for a string literal, an
\* empty token window) never aborts mark_text_ranges.
C5_InconsistencyNeverAborts ==
  [][(StrTokenMissing \/ WindowFails) => phase' # "raised"]_vars

\* the distance of every node of the subtree from its root
RECURSIVE DepthFrom(_, _, _)
DepthFrom(frontier, seen, d) ==
  IF frontier = {} THEN [n \in {} |-> 0]
  ELSE LET next == (UNION {ChildSet(n) : n \in frontier}) \ (seen \cup frontier)
       IN [n \in frontier |-> d] @@ DepthFrom(next, seen \cup frontier, d + 1)

ContainingNodes(tree, r) ==
  {n \in walk(tree) : Node(n).positioned /\ contains_smaller_eq(RangeOf(n), r)}

\* C7: find_closest_containing_node returns the deepest node that contains the
\* query: it contains the query, none of its descendants does, no containing node
\* lies deeper; and None exactly when no positioned node contains the query.
C7_ClosestIsDeepest ==
  answer.op = "find_closest_containing_node" =>
    LET r == answer.result
        c == ContainingNodes(answer.tree, answer.range)
        depth == DepthFrom({answer.tree}, {}, 0)
    IN /\ (r = NoNode) <=> (c = {})
       /\ r # NoNode =>
            /\ r \in c
            /\ (walk(r) \ {r}) \cap c = {}
            /\ \A n \in c : depth[n] <= depth[r]

ExactExpressions(tree, r) ==
  {n \in walk(tree) : Node(n).positioned /\ Node(n).base = "expr" /\ RangeOf(n) = r}

\* C8: find_expression returns only an expression node whose range equals the
\* query exactly, returns one whenever the tree has one, and None otherwise.
C8_ExactExpression ==
  answer.op = "find_expression" =>
    /\ answer.result # NoNode => answer.result \in ExactExpressions(answer.tree, answer.range)
    /\ ExactExpressions(answer.tree, answer.range) # {} => answer.result # NoNode

\* an expression found although a statement of the tree has the very same range
C8_Witness ==
  /\ answer.op = "find_expression"
  /\ answer.result # NoNode
  /\ \E s \in walk(answer.tree) :
       Node(s).base = "stmt" /\ RangeOf(s) = answer.range

\* the nodes that have n among their children, and their parents, and so on
RECURSIVE AncestorsFrom(_, _)
AncestorsFrom(frontier, seen) ==
  LET up == {p \in Nodes : ChildSet(p) \cap frontier # {}} \ seen
  IN IF up = {} THEN seen ELSE AncestorsFrom(up, seen \cup up)

ProperAncestors(n) == AncestorsFrom({n}, {})

\* C9: has_parent_with_class is true exactly when a proper ancestor of the target
\* inside the tree is of the class, nodes compared by identity.
C9_AncestorOfKind ==
  answer.op = "has_parent_with_class" =>
    (answer.found <=>
       \E a \in ProperAncestors(answer.target) \cap walk(answer.tree) :
          isinstance(a, answer.kind))

\* the target lies inside the tree below no node of the class, and a node of the
\* class in the tree has exactly the target's range: the answer is false
C9_Witness ==
  /\ answer.op = "has_parent_with_class"
  /\ ~answer.found
  /\ answer.target \in walk(answer.tree) \ {answer.tree}
  /\ Node(answer.target).positioned
  /\ \E m \in walk(answer.tree) \ {answer.target} :
       isinstance(m, answer.kind) /\ RangeOf(m) = RangeOf(answer.target)

\* C6: tokenize_with_char_offsets returns one token per raw token, in order, its
\* columns the decoded lengths of its lines up to the raw offsets, the tokens of
\* line 0 or with both columns 0 copied unchanged.
C6_TokensWithCharOffsets ==
  tk.pc = "returned" =>
    /\ ~tk.returned_none
    /\ Len(tk.returned) = Len(token_source)
    /\ \A i \in 1 .. Len(token_source) :
         LET raw == token_source[i]
             out == tk.returned[i]
         IN /\ out.type = raw.type /\ out.string = raw.string
            /\ out.lineno = raw.start[1] /\ out.end_lineno = raw.end[1]
            /\ IF IsCopied(raw)
               THEN out.col_offset = raw.start[2] /\ out.end_col_offset = raw.end[2]
               ELSE /\ out.col_offset = TranslatedCols(raw)[1]
                    /\ out.end_col_offset = TranslatedCols(raw)[2]

\* C10: extract_text_range returns the characters of the source from
\* (lineno, col_offset) up to but excluding (end_lineno, end_col_offset), for
\* every range with start <= end inside the source.
C10_ExtractIsSubstring ==
  xt.pc = "returned" =>
    /\ ~xt.raised
    /\ xt.text = SubSeq(xt.source,
                        LineStart(xt.source, xt.range[1]) + xt.range[2] + 1,
                        LineStart(xt.source, xt.range[3]) + xt.range[4])

\* a range over three lines that starts and ends inside its lines
C10_Witness ==
  /\ xt.pc = "returned"
  /\ xt.range[3] = xt.range[1] + 2
  /\ xt.range[2] > 0
  /\ xt.range[4] > 0
  /\ xt.text # <<>>

\* a range within one line that starts after the line's first character
C10_WitnessOneLine ==
  /\ xt.pc = "returned"
  /\ xt.range[3] = xt.range[1]
  /\ xt.range[2] > 0
  /\ xt.range[4] > xt.range[2]

\* the leaf literals: numbers, strings, names
LeafLiterals == {n \in Nodes : Node(n).kind \in {"Num", "Str", "Bytes", "Name", "NameConstant"}}

\* the tokens that start where the node starts
TokensAt(n) == {i \in 1 .. Len(all_tokens) : all_tokens[i].start = StartOf(n)}

\* the characters of the source a token covers
TokenText(tok) ==
  SubSeq(SourceText, LineStart(SourceText, tok.start[1]) + tok.start[2] + 1,
         LineStart(SourceText, tok.end[1]) + tok.end[2])

\* C11: for every leaf literal node of the ranged tree, extract_text_range of the
\* source and the node's range is exactly the text of the literal's token.
C11_LeafRoundTrip ==
  (phase = "done" /\ xt.pc = "returned") =>
    \A n \in LeafLiterals :
       RangeOf(n) = xt.range =>
         /\ ~xt.raised
         /\ \E i \in TokensAt(n) : xt.text = TokenText(all_tokens[i])

\* the node whose start fix_node compares the node's reported start with
FirstOperand(n) ==
  IF Node(n).kind = "BinOp" THEN Child(n, "left")
  ELSE IF Node(n).kind = "Call" THEN Child(n, "func")
  ELSE Child(n, "value")

\* The parser's report of the node's start is none of its documented defects: the
\* column is a byte offset into the line, and the node is not reported after its
\* first operand (both as the parser reported them, in bytes).
ReportedTruly(n) ==
  /\ Node(n).col_offset >= 0
  /\ Node(n).kind \in {"BinOp", "Call", "Attribute", "Subscript"} =>
       /\ Node(FirstOperand(n)).col_offset >= 0
       /\ PosLeq(<<Node(n).lineno, Node(n).col_offset>>,
                 <<Node(FirstOperand(n)).lineno, Node(FirstOperand(n)).col_offset>>)

\* the number of characters of the line that lie within its first bytes
CharsWithin(line, bytes) ==
  Cardinality({i \in 1 .. Len(line) : ByteLen(SubSeq(line, 1, i)) <= bytes})

\* C12: after the correction of the starts every positioned node's column is the
\* number of characters before the node on its line: of a node the parser reported
\* truly, the characters within the reported bytes; of a string literal, the column
\* of a string token; of a node reported after its first operand, the operand's.
C12_StartsInCharacters ==
  phase \in {"sweep", "done"} =>
    \A n \in Positioned :
       IF ReportedTruly(n)
       THEN /\ lineno[n] = Node(n).lineno
            /\ col_offset[n] = CharsWithin(source_lines[Node(n).lineno], Node(n).col_offset)
       ELSE IF Node(n).kind = "Str"
       THEN \E i \in 1 .. Len(all_tokens) :
               all_tokens[i].type = "STRING" /\ all_tokens[i].start = StartOf(n)
       ELSE Node(n).kind \in {"BinOp", "Call", "Attribute", "Subscript", "Expr"} =>
               StartOf(n) = StartOf(FirstOperand(n))

StrNodes == {n \in Nodes : Node(n).kind = "Str"}

\* the string tokens that spell the literal, as far as the parser's report tells:
\* the token at the reported column, or for a literal reported at column -1 a token
\* of several lines that ends on the reported line
SpellingTokens(n) ==
  {i \in 1 .. Len(all_tokens) :
     /\ all_tokens[i].type = "STRING"
     /\ IF Node(n).col_offset >= 0
        THEN all_tokens[i].start =
               <<Node(n).lineno,
                 CharsWithin(source_lines[Node(n).lineno], Node(n).col_offset)>>
        ELSE /\ all_tokens[i].end[1] = Node(n).lineno
             /\ all_tokens[i].start[1] < all_tokens[i].end[1]}

\* C13: after the correction every string-literal node has the start of the token
\* that spells it, the string tokens taken in source order; a triple-quoted
\* literal has the start its token reports.
C13_StrStartsAtItsToken ==
  phase \in {"sweep", "done"} =>
    \A n \in StrNodes : \E i \in SpellingTokens(n) : StartOf(n) = all_tokens[i].start

\* the nodes fix_node compares with their first operand
OperandFirstNodes == {n \in Nodes : Node(n).kind \in {"BinOp", "Call", "Attribute", "Subscript"}}

\* C14: after fix_ast_problems every binary operation starts no later than its left
\* operand, every call no later than its callee, every attribute access and every
\* subscript no later than its base; a node reported after that child's corrected
\* start has exactly the child's corrected start.
C14_NotAfterFirstOperand ==
  phase \in {"sweep", "done"} =>
    \A n \in OperandFirstNodes :
       /\ PosLeq(StartOf(n), StartOf(FirstOperand(n)))
       /\ PosLess(StartOf(FirstOperand(n)), <<Node(n).lineno, Node(n).col_offset>>)
            => StartOf(n) = StartOf(FirstOperand(n))

\* a binary operation the parser reported at its operator, on the line of its left
\* operand, starts where the operand starts
C14_Witness ==
  /\ phase = "done"
  /\ \E n \in OperandFirstNodes :
       /\ Node(n).kind = "BinOp"
       /\ Node(n).lineno = lineno[FirstOperand(n)]
       /\ Node(n).col_offset > col_offset[FirstOperand(n)]
       /\ StartOf(n) = StartOf(FirstOperand(n))

\* C15: compare_node_positions(n1, n2) is positive when n1 starts after n2, negative
\* when n1 starts before n2 and 0 only when line and column are equal.
C15_CompareIsLexicographic ==
  answer.op = "compare_node_positions" =>
    /\ answer.result > 0 <=> PosLess(StartOf(answer.target), StartOf(answer.tree))
    /\ answer.result < 0 <=> PosLess(StartOf(answer.tree), StartOf(answer.target))
    /\ answer.result = 0 <=> StartOf(answer.tree) = StartOf(answer.target)

BareCalls == {n \in Nodes : IsBareCall(n)}

\* the empty parameter lists of the source at or after the node's start: the
\* indexes of their opening parentheses
EmptyParensFrom(n) ==
  {i \in 1 .. Len(all_tokens) - 1 :
     /\ all_tokens[i].string = "(" /\ all_tokens[i + 1].string = ")"
     /\ PosLeq(StartOf(n), all_tokens[i].start)}

\* C16: for the source "f()\n" the call's range is (1,0)-(1,3) and the callee's
\* (1,0)-(1,1); for every call without arguments the callee ends at or before the
\* start of the call's opening parenthesis.
C16_CalleeEndsBeforeParenthesis ==
  phase = "done" =>
    /\ sample.source = << <<"f", "(", ")", "\n">> >> =>
         \A n \in BareCalls : /\ RangeOf(n) = <<1, 0, 1, 3>>
                              /\ RangeOf(Child(n, "func")) = <<1, 0, 1, 1>>
    /\ \A n \in BareCalls :
         \E i \in EmptyParensFrom(n) : PosLeq(EndOf(Child(n, "func")), all_tokens[i].start)

\* C17: for the source "x = 1 + 2\n" the binary operation's range is (1,4)-(1,9),
\* its left operand's (1,4)-(1,5) and its right operand's (1,8)-(1,9).
C17_BinOpScenario ==
  (phase = "done" /\ sample.source = << <<"x", " ", "=", " ", "1", " ", "+", " ", "2", "\n">> >>) =>
    \A n \in Nodes :
       Node(n).kind = "BinOp" =>
         /\ RangeOf(n) = <<1, 4, 1, 9>>
         /\ RangeOf(Child(n, "left")) = <<1, 4, 1, 5>>
         /\ RangeOf(Child(n, "right")) = <<1, 8, 1, 9>>

\* mark_text_ranges has returned for that source, the operation and its operands
\* ranged
C17_Witness ==
  /\ phase = "done"
  /\ sample.source = << <<"x", " ", "=", " ", "1", " ", "+", " ", "2", "\n">> >>
  /\ \E n \in marked : /\ Node(n).kind = "BinOp"
                       /\ {Child(n, "left"), Child(n, "right")} \subseteq marked

RightSiblings ==
  {s \in ChildSet(Last(stack).node) \cap Positioned : PosLess(StartOf(Callee), StartOf(s))}

\* the children of that node not visited yet
ToVisit == {Last(stack).todo[i] : i \in 1 .. Len(Last(stack).todo)}

\* C20: the sweep visits the children of every node in descending order of their
\* corrected starts, and the horizon handed to a child is the start of its right
\* neighbour in the source.
C20_RightToLeft ==
  (CallPending /\ stack # <<>> /\ Node(Callee).positioned) =>
    /\ RightSiblings \cap ToVisit = {}
    /\ \A s \in RightSiblings :
         (\A r \in RightSiblings : PosLeq(StartOf(s), StartOf(r))) => prelim = StartOf(s)

\* the earlier siblings of the child the sweep is about to visit: what is left of
\* reversed(children) after it
EarlierSiblings == IF stack = <<>> THEN <<>> ELSE Tail(Last(stack).todo)

\* C21: when computing a positioned node's real end fails (empty window, window
\* emptied by the trimming, failed assertion of the peeling), the node gets
\* end_lineno = lineno and end_col_offset = col_offset + 1, nothing is raised, and
\* the sweep goes on with the node's children, then with its earlier siblings,
\* under the horizon the node was given.
C21_FallbackIsLocal ==
  [][WindowFails =>
       LET n == Callee
       IN /\ end_lineno'[n] = lineno[n]
          /\ end_col_offset'[n] = col_offset[n] + 1
          /\ \A m \in Nodes \ {n} :
               end_lineno'[m] = end_lineno[m] /\ end_col_offset'[m] = end_col_offset[m]
          /\ n \in marked'
          /\ phase' = "sweep"
          /\ prelim' = prelim
          /\ stack' # <<>>
          /\ Last(stack').node = n
          /\ Last(stack').todo = Reverse(_get_ordered_child_nodes(n))
          /\ Len(stack') = Len(stack) + 1
          /\ stack # <<>> =>
               /\ stack'[Len(stack)].node = Last(stack).node
               /\ stack'[Len(stack)].todo = EarlierSiblings]_vars

\* the sweep has just entered a node: none of its children is visited yet
JustEntered ==
  /\ phase = "sweep"
  /\ stack # <<>>
  /\ Last(stack).todo = Reverse(_get_ordered_child_nodes(Last(stack).node))

\* the window the node just entered was given by its caller
EnteredWindow ==
  LET n == Last(stack).node
      passed == IF Len(stack) = 1 THEN all_tokens ELSE stack[Len(stack) - 1].tokens
  IN _extract_tokens(passed, lineno[n], col_offset[n], prelim[1], prelim[2])

\* the sweep has just entered, by the fallback, a node that has children to visit
\* and earlier siblings left: the trimming left tokens and the peeling's assertion
\* failed, so the end the node got from its last token was replaced
C21_Witness ==
  /\ JustEntered
  /\ Len(stack) > 1
  /\ Node(Last(stack).node).positioned
  /\ LET n == Last(stack).node
         t == TrimWindow(n, EnteredWindow)
     IN /\ ~t.raised /\ t.tokens # <<>>
        /\ PeelWindow(n, t.tokens).raised
        /\ EndOf(n) = <<lineno[n], col_offset[n] + 1>>
        /\ EndOf(n) # Last(t.tokens).end
        /\ Last(stack).todo # <<>>
        /\ stack[Len(stack) - 1].todo # <<>>

\* the same by an empty window
C21_WitnessEmptyWindow ==
  /\ JustEntered
  /\ Node(Last(stack).node).positioned
  /\ EnteredWindow = <<>>
  /\ EndOf(Last(stack).node) = <<lineno[Last(stack).node], col_offset[Last(stack).node] + 1>>

\* the same by a window the trimming emptied
C21_WitnessEmptiedWindow ==
  /\ JustEntered
  /\ Node(Last(stack).node).positioned
  /\ EnteredWindow # <<>>
  /\ LET t == TrimWindow(Last(stack).node, EnteredWindow)
     IN t.raised \/ t.tokens = <<>>
  /\ EndOf(Last(stack).node) = <<lineno[Last(stack).node], col_offset[Last(stack).node] + 1>>

====
